---- MODULE Spec2Model ----
(***************************************************************************)
(* A model of photo_sorter: the location matcher, the clusterer, the name  *)
(* normalizers and the place-name resolver.                                *)
(*                                                                         *)
(* Text is a sequence of characters, each a string.  A float is a         *)
(* fixed-point integer whose unit is stated where it is used.              *)
(***************************************************************************)
EXTENDS Integers, Sequences, FiniteSets, TLC

VARIABLES
    hasUnidecode,   \* geocode.py 15-19: whether "import unidecode" succeeded
    txtOp,          \* the text function applied last ("idle" before any)
    txtIn,          \* its argument
    txtOut,         \* its result
    locations,      \* config.locations, in declared order
    mLat, mLon,     \* the coordinate given to match_location
    mDone,          \* whether match_location has returned
    mResult,        \* what it returned
    rawConfig,      \* the configuration file: [file, data]
    loadStatus,     \* "default": SorterConfig(); "ok" or the exception of load_config
    match_radius_km,            \* SorterConfig.match_radius_km (metres)
    uncategorized_behavior,     \* SorterConfig.uncategorized_behavior
    uncategorized_folder_name,  \* SorterConfig.uncategorized_folder_name
    cRadius,        \* the radius_km given to cluster_key (whole km)
    cA, cB,         \* two coordinates <<lat, lon>>
    cDone,          \* whether cluster_key has been applied to both
    cPrecision,     \* cluster_precision_from_radius_km(cRadius)
    cKeyA, cKeyB,   \* cluster_key of cA and of cB
    cacheFile,      \* the geocode cache file: [state, data]
    lastRequestTime,\* geocode.py 323: _last_request_time (tenths of a second)
    now,            \* time.monotonic() (tenths of a second)
    gCalls,         \* how many times get_place_name has been called
    gArgs,          \* the arguments of the last call
    gResp,          \* what the reverse-geocoding service answered to it
    gOut,           \* its outcome: [exc, ret, requested]
    gPrev,          \* the call before it: [args, out]
    gFileBefore,    \* the cache file as the last call found it
    reqTimes,       \* the start times of the network requests made so far
    srcDir,         \* a directory of photos: [state, files], files by name
    destDir,        \* the directory copy_image / move_image put files into
    fCalls,         \* how many times copy_image / move_image were called
    fCall,          \* the last such call: its arguments, what it found, its outcome
    rArgs,          \* the arguments of run, and the number of image files found
    rPc,            \* where main and run are
    rI,             \* the index of the loop run is in
    rPhotos,        \* per image file: its GPS outcome, coordinate, destination, file operation
    rNoGps,         \* cli.py 126: no_gps_paths
    rClusters,      \* cli.py 125 and 168: cluster_to_paths and cluster_to_folder, in insertion order
    rSum,           \* the counters sorted_count, skipped_no_gps, skipped_left_in_place
    rErrors,        \* cli.py 78: errors, the image file of each pair
    rOutputCreated, \* whether base_output.mkdir has been called
    rExc,           \* the exception that left run, "" when none
    rExit,          \* the exit code of main, -1 while it runs
    threads         \* per thread calling get_place_name: [pc, wake, seen, stamp, ret]

textVars == <<hasUnidecode, txtOp, txtIn, txtOut>>
configVars == <<rawConfig, loadStatus, match_radius_km, uncategorized_behavior,
                uncategorized_folder_name>>
matchVars == <<locations, mLat, mLon, mDone, mResult, configVars>>

clusterVars == <<cRadius, cA, cB, cDone, cPrecision, cKeyA, cKeyB>>

geoVars == <<cacheFile, lastRequestTime, now, gCalls, gArgs, gResp, gOut,
             gPrev, gFileBefore, reqTimes>>

fileVars == <<srcDir, destDir, fCalls, fCall>>

threadVars == <<threads>>

otherVars == <<fileVars, threadVars>>

runVars == <<rArgs, rPc, rI, rPhotos, rNoGps, rClusters, rSum, rErrors, rOutputCreated, rExc, rExit>>

vars == <<textVars, matchVars, clusterVars, geoVars, otherVars, runVars>>

----------------------------------------------------------------------------
(* Characters and the str methods the program uses.                         *)

LowerLetters == <<"a","b","c","d","e","f","g","h","i","j","k","l","m",
                  "n","o","p","q","r","s","t","u","v","w","x","y","z">>
UpperLetters == <<"A","B","C","D","E","F","G","H","I","J","K","L","M",
                  "N","O","P","Q","R","S","T","U","V","W","X","Y","Z">>
Digits == {"0","1","2","3","4","5","6","7","8","9"}
Whitespace == {" ", "\t"}
\* The CJK ideograph U+4E5D ("nine", the first character of Jiufen): the one
\* character of the range U+4E00..U+9FFF in the model's alphabet.
Jiu == "U+4E5D"
CjkChars == {Jiu}

Range(s) == {s[i] : i \in DOMAIN s}

IsLowerChar(c) == c \in Range(LowerLetters)
IsUpperChar(c) == c \in Range(UpperLetters)
IsAsciiLetter(c) == IsLowerChar(c) \/ IsUpperChar(c)
IsDigitChar(c) == c \in Digits
IsSpaceChar(c) == c \in Whitespace
\* ord(c) < 128
IsAscii(c) == c \notin CjkChars
\* str.isalpha() of one character: CJK ideographs are letters too.
IsAlphaChar(c) == IsAsciiLetter(c) \/ c \in CjkChars
\* the regular expression class \w: letters, digits and the underscore
IsWordChar(c) == IsAlphaChar(c) \/ IsDigitChar(c) \/ c = "_"

UpperChar(c) ==
    IF IsLowerChar(c)
    THEN UpperLetters[CHOOSE i \in DOMAIN LowerLetters : LowerLetters[i] = c]
    ELSE c
LowerChar(c) ==
    IF IsUpperChar(c)
    THEN LowerLetters[CHOOSE i \in DOMAIN UpperLetters : UpperLetters[i] = c]
    ELSE c

\* str.upper(), str.lower()
StrUpper(s) == [i \in DOMAIN s |-> UpperChar(s[i])]
StrLower(s) == [i \in DOMAIN s |-> LowerChar(s[i])]
\* str.capitalize(): first character upper-cased, the rest lower-cased
Capitalize(s) ==
    [i \in DOMAIN s |-> IF i = 1 THEN UpperChar(s[i]) ELSE LowerChar(s[i])]
\* str.isalpha(), str.isdigit(): false on the empty string
IsAlpha(s) == s # <<>> /\ \A i \in DOMAIN s : IsAlphaChar(s[i])
IsDigit(s) == s # <<>> /\ \A i \in DOMAIN s : IsDigitChar(s[i])

RECURSIVE LStrip(_)
LStrip(s) ==
    IF s # <<>> /\ IsSpaceChar(Head(s)) THEN LStrip(Tail(s)) ELSE s
RECURSIVE RStrip(_)
RStrip(s) ==
    IF s # <<>> /\ IsSpaceChar(s[Len(s)])
    THEN RStrip(SubSeq(s, 1, Len(s) - 1))
    ELSE s
\* str.strip()
Strip(s) == RStrip(LStrip(s))

\* re.sub(r"\s+", " ", s): every run of whitespace becomes one space
RECURSIVE CollapseWhitespace(_)
CollapseWhitespace(s) ==
    IF s = <<>> THEN <<>>
    ELSE IF IsSpaceChar(Head(s))
         THEN <<" ">> \o CollapseWhitespace(LStrip(s))
         ELSE <<Head(s)>> \o CollapseWhitespace(Tail(s))

\* The leading run of non-whitespace characters of s.
RECURSIVE FirstWord(_)
FirstWord(s) ==
    IF s = <<>> \/ IsSpaceChar(Head(s)) THEN <<>>
    ELSE <<Head(s)>> \o FirstWord(Tail(s))
\* str.split(): the maximal runs of non-whitespace characters, in order
RECURSIVE Split(_)
Split(s) ==
    LET t == LStrip(s)
        w == FirstWord(t)
    IN  IF t = <<>> THEN <<>>
        ELSE <<w>> \o Split(SubSeq(t, Len(w) + 1, Len(t)))

RECURSIVE Concat(_)
Concat(parts) ==
    IF parts = <<>> THEN <<>> ELSE Head(parts) \o Concat(Tail(parts))

StartsWith(s, p) == Len(s) >= Len(p) /\ SubSeq(s, 1, Len(p)) = p
Contains(s, p) ==
    \E i \in 1..(Len(s) - Len(p) + 1) : SubSeq(s, i, i + Len(p) - 1) = p

Unknown == <<"U","n","k","n","o","w","n">>
\* Python's None, where a text may stand: no text equals it.
None == <<"<None>">>

----------------------------------------------------------------------------
(* geocode.py: the name normalizers.                                        *)

\* What the unidecode package writes for a non-ASCII character.
UnidecodeTable(c) ==
    IF c = Jiu THEN <<"J","i","u"," ">> ELSE <<c>>

\* _unidecode: the unidecode package, or without it the ASCII characters only.
RECURSIVE _unidecode(_)
_unidecode(s) ==
    IF s = <<>> THEN <<>>
    ELSE (IF IsAscii(Head(s)) THEN <<Head(s)>>
          ELSE IF hasUnidecode THEN UnidecodeTable(Head(s))
          ELSE <<>>) \o _unidecode(Tail(s))

\* re.sub(r"[^\w\s]", " ", s)
ReplacePunctuation(s) ==
    [i \in DOMAIN s |->
        IF IsWordChar(s[i]) \/ IsSpaceChar(s[i]) THEN s[i] ELSE " "]

RECURSIVE MeaningfulPartsKeepThreeDigits(_)
MeaningfulPartsKeepThreeDigits(parts) ==
    IF parts = <<>> THEN <<>>
    ELSE LET p == Head(parts)
         IN  (IF IsAlpha(p) THEN <<p>>
              ELSE IF IsDigit(p) /\ Len(p) >= 3 THEN <<p>>
              ELSE <<>>) \o MeaningfulPartsKeepThreeDigits(Tail(parts))

\* to_single_word_english, lines 58-63: the parts that are kept
RECURSIVE MeaningfulParts(_)
MeaningfulParts(parts) ==
    IF parts = <<>> THEN <<>>
    ELSE LET p == Head(parts)
         IN  (IF IsAlpha(p) THEN <<p>>
              ELSE IF IsDigit(p) /\ Len(p) > 3 THEN <<p>>
              ELSE <<>>) \o MeaningfulParts(Tail(parts))

CountDigits(s) == Cardinality({i \in DOMAIN s : IsDigitChar(s[i])})

to_single_word_english(name) ==
    IF name = <<>> \/ Strip(name) = <<>> THEN Unknown
    ELSE
    LET s0 == _unidecode(name)
        s1 == ReplacePunctuation(s0)
        s == Strip(CollapseWhitespace(s1))
        parts == Split(s)
        meaningful_parts == MeaningfulParts(parts)
        result == Concat([i \in DOMAIN meaningful_parts |->
                      IF IsAlpha(meaningful_parts[i])
                      THEN Capitalize(meaningful_parts[i])
                      ELSE meaningful_parts[i]])
    IN  IF parts = <<>> THEN Unknown
        ELSE IF meaningful_parts = <<>> THEN Unknown
        ELSE IF result # <<>> /\ 2 * CountDigits(result) > Len(result)
             THEN Unknown
        ELSE IF result # <<>> THEN result ELSE Unknown

\* re.sub(r'[\\/:*?"<>|]', " ", name)
IllegalChars == {"\\", "/", ":", "*", "?", "\"", "<", ">", "|"}
ReplaceIllegal(s) ==
    [i \in DOMAIN s |-> IF s[i] \in IllegalChars THEN " " ELSE s[i]]

sanitize_folder_name_no_collapse(name) ==
    LET out == Strip(ReplaceIllegal(name))
    IN  IF out # <<>> THEN out ELSE Unknown

sanitize_folder_name(name) ==
    LET out == Strip(CollapseWhitespace(ReplaceIllegal(name)))
    IN  IF out # <<>> THEN out ELSE Unknown

\* _name_to_safe_folder, lines 108-115: the first four parts that are not
\* short numbers
RECURSIVE TakeParts(_, _)
TakeParts(parts, take) ==
    IF parts = <<>> THEN take
    ELSE LET p == Head(parts)
         IN  IF IsDigit(p) /\ Len(p) <= 5 THEN TakeParts(Tail(parts), take)
             ELSE IF Len(take) + 1 >= 4 THEN Append(take, p)
             ELSE TakeParts(Tail(parts), Append(take, p))

\* re.sub(r"[^\w]", "", s)
RECURSIVE RemoveNonWord(_)
RemoveNonWord(s) ==
    IF s = <<>> THEN <<>>
    ELSE (IF IsWordChar(Head(s)) THEN <<Head(s)>> ELSE <<>>)
         \o RemoveNonWord(Tail(s))

_name_to_safe_folder(name) ==
    IF name = <<>> \/ Strip(name) = <<>> THEN Unknown
    ELSE
    LET s0 == _unidecode(name)
        s == Strip(CollapseWhitespace(ReplacePunctuation(s0)))
        parts == Split(s)
        take == TakeParts(parts, <<>>)
        cleaned == RemoveNonWord(s)
        result == Concat([i \in DOMAIN take |->
                      IF Len(take[i]) > 1
                      THEN <<UpperChar(take[i][1])>> \o StrLower(Tail(take[i]))
                      ELSE StrUpper(take[i])])
    IN  IF s0 = <<>> \/ Strip(s0) = <<>> THEN Unknown
        ELSE IF s = <<>> THEN Unknown
        ELSE IF parts = <<>> THEN Unknown
        ELSE IF take = <<>>
             THEN (IF cleaned # <<>> /\ Len(cleaned) > 2
                   THEN Capitalize(cleaned) ELSE Unknown)
        ELSE IF result # <<>> /\ Len(result) > 1 THEN result ELSE Unknown

_has_chinese_characters(text) ==
    \E i \in DOMAIN text : text[i] \in CjkChars

----------------------------------------------------------------------------
(* Floats holding degrees.  A float is [neg, m]: its sign and its magnitude *)
(* in units of 0.0001 degree, so that -0.0 differs from 0.0 as it does in  *)
(* Python's text of a float.                                               *)

Float(neg, m) == [neg |-> neg, m |-> m]

\* The floats of the model: 0.0, 0.004, 0.5, 2.5, 25.03, 25.0339, 25.05,
\* 121.56, 121.5645, 121.58, and their negatives.  A decimal that is no binary
\* fraction is stored as the nearest double, above it or below it; round()
\* rounds the stored value, which decides the decimal ties.
BinaryExact == {0, 5000, 25000}
BinaryAbove == {40, 250300, 250500, 1215600}

RECURSIVE Pow10(_)
Pow10(n) == IF n = 0 THEN 1 ELSE 10 * Pow10(n - 1)

\* round(x, p) of a float, 0 <= p <= 3: correctly rounded from the stored
\* double, an exact tie going to the even neighbour; the sign is kept.
round(x, p) ==
    LET u == Pow10(4 - p)
        q == x.m \div u
        r == x.m % u
        up == \/ 2 * r > u
              \/ /\ 2 * r = u
                 /\ \/ x.m \in BinaryAbove
                    \/ x.m \in BinaryExact /\ q % 2 = 1
    IN  Float(x.neg, (IF up THEN q + 1 ELSE q) * u)

\* a == b on floats: -0.0 == 0.0
FloatEq(a, b) == a.m = b.m /\ (a.neg = b.neg \/ a.m = 0)

DigitText == <<"0","1","2","3","4","5","6","7","8","9">>
RECURSIVE NatText(_)
NatText(n) ==
    IF n < 10 THEN <<DigitText[n + 1]>>
    ELSE NatText(n \div 10) \o <<DigitText[(n % 10) + 1]>>

\* The decimals of a float that has at most w of them: trailing zeros are
\* dropped, one digit is always written.
\* The w digits of f, leading zeros included
RECURSIVE PaddedText(_, _)
PaddedText(f, w) ==
    IF w = 1 THEN <<DigitText[f + 1]>>
    ELSE PaddedText(f \div 10, w - 1) \o <<DigitText[(f % 10) + 1]>>

RECURSIVE FractionText(_, _)
FractionText(f, w) ==
    IF w = 1 THEN <<DigitText[f + 1]>>
    ELSE IF f % 10 = 0 THEN FractionText(f \div 10, w - 1)
    ELSE PaddedText(f, w)

\* str(x) of a float, as an f-string writes it: "25.034", "-0.0", "122.0"
FloatText(x) ==
    (IF x.neg THEN <<"-">> ELSE <<>>)
    \o NatText(x.m \div 10000) \o <<".">> \o FractionText(x.m % 10000, 4)

----------------------------------------------------------------------------
(* geocode.py: the clusterer.                                               *)

cluster_precision_exclusive_50(radius_km) ==
    LET r == IF radius_km <= 0 THEN 10 ELSE radius_km
    IN  IF r > 50 THEN 0
        ELSE IF r >= 10 THEN 1
        ELSE IF r >= 2 THEN 2
        ELSE 3

cluster_precision_from_radius_km(radius_km) ==
    LET r == IF radius_km <= 0 THEN 10 ELSE radius_km
    IN  IF r >= 50 THEN 0
        ELSE IF r >= 10 THEN 1
        ELSE IF r >= 2 THEN 2
        ELSE 3

cluster_key(lat, lon, radius_km) ==
    LET p == cluster_precision_from_radius_km(radius_km)
    IN  <<round(lat, p), round(lon, p)>>

----------------------------------------------------------------------------
(* geocode.py: the cache, the reverse-geocoding lookup and get_place_name.  *)

COORD_PRECISION == 3
\* 1.1 seconds, in tenths of a second
NOMINATIM_DELAY_SEC == 11

\* A JSON value that is no text (a number), where a text may stand.
NonText == <<"<number>">>
\* bool(v) of a text or None
Truthy(v) == v # None /\ v # <<>>
\* a or b
Or(a, b) == IF Truthy(a) THEN a ELSE b

\* A dict is a function from its keys.
EmptyDict == <<>>
DictGet(d, k) == IF k \in DOMAIN d THEN d[k] ELSE None
DictSet(d, k, v) == [x \in DOMAIN d \cup {k} |-> IF x = k THEN v ELSE d[x]]
DictPop(d, k) == [x \in DOMAIN d \ {k} |-> d[x]]

\* str.replace(a, b) for single characters
ReplaceChar(s, a, b) == [i \in DOMAIN s |-> IF s[i] = a THEN b ELSE s[i]]

\* The leading part of s before the first character c.
RECURSIVE UpTo(_, _)
UpTo(s, c) ==
    IF s = <<>> \/ Head(s) = c THEN <<>> ELSE <<Head(s)>> \o UpTo(Tail(s), c)
\* str.split(c): the parts between the separators, empty ones included
RECURSIVE SplitOn(_, _)
SplitOn(s, c) ==
    LET first == UpTo(s, c)
    IN  IF Len(first) = Len(s) THEN <<first>>
        ELSE <<first>> \o SplitOn(SubSeq(s, Len(first) + 2, Len(s)), c)

\* precision: <<>> for None, <<p>> for p
_cache_key(lat, lon, precision) ==
    LET p == IF precision = <<>> THEN COORD_PRECISION ELSE precision[1]
    IN  FloatText(round(lat, p)) \o <<",">> \o FloatText(round(lon, p))

\* A fallback that keeps the minus sign in single-word mode
CoordinateFallbackKeepsMinus(lat, lon, single_word_english) ==
    IF single_word_english
    THEN ReplaceChar(<<"L","a","t">> \o FloatText(round(lat, 2))
                     \o <<"L","o","n">> \o FloatText(round(lon, 2)),
                     ".", "_")
    ELSE FloatText(round(lat, COORD_PRECISION)) \o <<",", " ">>
         \o FloatText(round(lon, COORD_PRECISION))

\* get_place_name, lines 347-349
CoordinateFallback(lat, lon, single_word_english) ==
    IF single_word_english
    THEN ReplaceChar(ReplaceChar(
             <<"L","a","t">> \o FloatText(round(lat, 2))
             \o <<"L","o","n">> \o FloatText(round(lon, 2)),
             ".", "_"), "-", "_")
    ELSE FloatText(round(lat, COORD_PRECISION)) \o <<",", " ">>
         \o FloatText(round(lon, COORD_PRECISION))

rounded_coords_folder_name(lat, lon, single_word_english) ==
    IF single_word_english
    THEN ReplaceChar(ReplaceChar(
             <<"L","a","t">> \o FloatText(round(lat, 2))
             \o <<"L","o","n">> \o FloatText(round(lon, 2)),
             ".", "_"), "-", "_")
    ELSE FloatText(round(lat, COORD_PRECISION)) \o <<",", " ">>
         \o FloatText(round(lon, COORD_PRECISION))

\* The cache file is missing, holds no JSON object ("corrupt"), or holds one.
_load_cache(file) == IF file.state = "dict" THEN file.data ELSE EmptyDict
_save_cache(file, cache) == [state |-> "dict", data |-> cache]

\* The "address" of a response: a dict, or a value that is none (a number);
\* NoAddress is Python's None.
DictAddress(d) == [kind |-> "dict", d |-> d]
NumberAddress == [kind |-> "number", d |-> EmptyDict]
NoAddress == [kind |-> "none", d |-> EmptyDict]
\* bool(address_dict)
AddressTruthy(a) == a.kind = "number" \/ (a.kind = "dict" /\ DOMAIN a.d # {})

\* name.isdigit() and len(name) <= 5
IsShortNumber(name) == IsDigit(name) /\ Len(name) <= 5

\* lines 241, 254, 286-288, 300, 407, 455: a stripped text that is neither
\* empty nor a short number
IsUsable(name) == name # <<>> /\ ~IsShortNumber(name)

\* "key in address and address[key]"
HasField(address, key) == key \in DOMAIN address.d /\ Truthy(address.d[key])

LandmarkKeys == <<"tourism", "landmark", "building", "attraction", "amenity">>
RegionKeys == <<"neighbourhood", "city", "county", "municipality", "state">>

\* _fetch_nominatim, lines 231-233
LandmarkReturn(name, city, address) ==
    IF Truthy(city) /\ name # city
    THEN <<name \o <<",", " ">> \o city, address>>
    ELSE <<name, address>>

\* _fetch_nominatim, lines 227-233.  <<>>: the loop ends without returning.
RECURSIVE LandmarkName(_, _)
LandmarkName(address, i) ==
    IF i > Len(LandmarkKeys) THEN <<>>
    ELSE IF HasField(address, LandmarkKeys[i])
         THEN LandmarkReturn(
                  address.d[LandmarkKeys[i]],
                  Or(DictGet(address.d, "city"),
                  Or(DictGet(address.d, "town"),
                  Or(DictGet(address.d, "village"),
                     DictGet(address.d, "county")))),
                  address)
         ELSE LandmarkName(address, i + 1)

\* lines 241-246 and 254-259: None unless the stripped value is usable
UsableOrNone(name) == IF IsUsable(name) THEN name ELSE None

\* _fetch_nominatim, lines 238-246 and 251-259: what the loop collects for
\* a key
CollectedName(address, key) ==
    IF HasField(address, key) THEN UsableOrNone(Strip(address.d[key]))
    ELSE None

\* _fetch_nominatim, lines 286-290: the return statement has three values.
RegionReturn(name, address, rest) ==
    IF IsUsable(name) THEN <<name, address, address>> ELSE rest

\* _fetch_nominatim, lines 283-290
RECURSIVE RegionName(_, _)
RegionName(address, i) ==
    IF i > Len(RegionKeys) THEN <<>>
    ELSE IF HasField(address, RegionKeys[i])
         THEN RegionReturn(Strip(address.d[RegionKeys[i]]), address,
                           RegionName(address, i + 1))
         ELSE RegionName(address, i + 1)

\* _fetch_nominatim, lines 296-303
AnyUsablePart(parts) == \E i \in DOMAIN parts : IsUsable(Strip(parts[i]))

\* _fetch_nominatim, lines 293-305
DisplayName(display_name, address) ==
    IF display_name # <<>> /\ AnyUsablePart(SplitOn(display_name, ","))
    THEN <<display_name, address>>
    ELSE <<None, address>>

\* _fetch_nominatim, lines 263-280.  <<>>: no return.
DistrictChoice(suburb_name, village_name, town_name, city_district_name, address) ==
    IF Truthy(suburb_name)
    THEN IF _has_chinese_characters(suburb_name) /\ Truthy(village_name)
            /\ ~_has_chinese_characters(village_name)
         THEN <<village_name, address>>
         ELSE <<suburb_name, address>>
    ELSE IF Truthy(village_name) THEN <<village_name, address>>
    ELSE IF Truthy(town_name)
    THEN IF _has_chinese_characters(town_name)
            /\ Truthy(city_district_name)
            /\ ~_has_chinese_characters(city_district_name)
         THEN <<city_district_name, address>>
         ELSE <<town_name, address>>
    ELSE IF Truthy(city_district_name)
    THEN <<city_district_name, address>>
    ELSE <<>>

\* _fetch_nominatim, lines 236-280
DistrictName(address) ==
    DistrictChoice(CollectedName(address, "suburb"),
                   CollectedName(address, "village"),
                   CollectedName(address, "town"),
                   CollectedName(address, "city_district"), address)

\* What a tier returned, or else what the rest of the function returns
ReturnedOrElse(returned, rest) == IF returned # <<>> THEN returned ELSE rest

\* The tuple _fetch_nominatim returns for a response [outcome, address,
\* display_name]: every outcome but "ok" (a network or HTTP error, a status
\* other than 200, a body that is no JSON, no object, or holds "error")
\* gives (None, None).
_fetch_nominatim(resp) ==
    IF resp.outcome # "ok" THEN <<None, NoAddress>>
    ELSE IF resp.address.kind # "dict"
         THEN DisplayName(resp.display_name, resp.address)
    ELSE ReturnedOrElse(LandmarkName(resp.address, 1),
         ReturnedOrElse(DistrictName(resp.address),
         ReturnedOrElse(RegionName(resp.address, 1),
                        DisplayName(resp.display_name, resp.address))))

\* How a part of get_place_name ends: it returns a text, raises, or goes on.
Return(text, file) ==
    [done |-> TRUE, exc |-> "", ret |-> text, file |-> file]
Raise(exc, file) ==
    [done |-> TRUE, exc |-> exc, ret |-> None, file |-> file]
GoOn(file) ==
    [done |-> FALSE, exc |-> "", ret |-> None, file |-> file]

\* A store that writes the single-word form instead of the raw name
StoreInCacheNormalized(has_cache, file, key, value) ==
    IF has_cache
    THEN _save_cache(file, DictSet(_load_cache(file), key,
                                   to_single_word_english(value)))
    ELSE file

\* if cache_path is not None: cache[key] = value, saved
StoreInCache(has_cache, file, key, value) ==
    IF has_cache THEN _save_cache(file, DictSet(_load_cache(file), key, value))
    ELSE file

\* An eviction that empties the cache
EvictAll(file, key) == _save_cache(file, EmptyDict)

\* cache.pop(key, None); _save_cache(cache_path, cache)
Evict(file, key) == _save_cache(file, DictPop(_load_cache(file), key))

\* A cache hit that returns whatever the entry converts to
UseCachedUnchecked(converted, key, single_word_english, file) ==
    Return(converted, file)

\* get_place_name, lines 367-371
UseCached(converted, key, single_word_english, file) ==
    IF converted # Unknown \/ ~single_word_english
    THEN Return(converted, file)
    ELSE GoOn(Evict(file, key))

\* get_place_name, lines 356-371
CheckCached(raw, raw_stripped, key, single_word_english, file) ==
    IF StartsWith(raw_stripped, <<"L","a","t">>)
       /\ Contains(raw_stripped, <<"L","o","n">>)
    THEN GoOn(Evict(file, key))
    ELSE IF IsDigit(raw_stripped) /\ 3 <= Len(raw_stripped)
            /\ Len(raw_stripped) <= 6
    THEN GoOn(Evict(file, key))
    ELSE UseCached(IF single_word_english THEN to_single_word_english(raw)
                   ELSE sanitize_folder_name(raw),
                   key, single_word_english, file)

\* A lookup that also evicts an entry that is empty or no text
LookupInEvicting(cache, key, single_word_english, file) ==
    IF key \notin DOMAIN cache THEN GoOn(file)
    ELSE IF cache[key] = <<>> \/ cache[key] = NonText
    THEN GoOn(Evict(file, key))
    ELSE CheckCached(cache[key], Strip(cache[key]), key,
                     single_word_english, file)

\* get_place_name, lines 353-371
LookupIn(cache, key, single_word_english, file) ==
    IF key \notin DOMAIN cache THEN GoOn(file)
    ELSE IF cache[key] = <<>> \/ cache[key] = NonText THEN GoOn(file)
    ELSE CheckCached(cache[key], Strip(cache[key]), key,
                     single_word_english, file)

\* get_place_name, lines 351-371
CacheLookup(key, has_cache, single_word_english, file) ==
    IF ~has_cache THEN GoOn(file)
    ELSE LookupIn(_load_cache(file), key, single_word_english, file)

RetryKeys == <<"village", "suburb">>

\* get_place_name, lines 409-425: rest is what the next key gives
RetryWith(fallback_value, fallback_converted, key, has_cache, file, rest) ==
    IF ~IsUsable(fallback_value) THEN rest
    ELSE IF fallback_converted # Unknown
    THEN Return(fallback_converted,
                StoreInCache(has_cache, file, key, fallback_value))
    ELSE IF _name_to_safe_folder(fallback_value) # Unknown
    THEN Return(_name_to_safe_folder(fallback_value),
                StoreInCache(has_cache, file, key, fallback_value))
    ELSE rest

\* get_place_name, lines 404-425: the village/suburb retry in single-word
\* mode, from key i on
RECURSIVE SingleWordRetry(_, _, _, _, _)
SingleWordRetry(address, i, key, has_cache, file) ==
    IF i > Len(RetryKeys) THEN GoOn(file)
    ELSE IF address.kind # "dict" THEN Raise("TypeError", file)
    ELSE IF HasField(address, RetryKeys[i])
    THEN RetryWith(Strip(address.d[RetryKeys[i]]),
                   to_single_word_english(Strip(address.d[RetryKeys[i]])),
                   key, has_cache, file,
                   SingleWordRetry(address, i + 1, key, has_cache, file))
    ELSE SingleWordRetry(address, i + 1, key, has_cache, file)

\* get_place_name, lines 455-471
PartialWith(fallback_value, converted, key, has_cache, single_word_english, file, rest) ==
    IF ~IsUsable(fallback_value) THEN rest
    ELSE IF single_word_english
    THEN IF converted # Unknown
         THEN Return(converted,
                     StoreInCache(has_cache, file, key, fallback_value))
         ELSE rest
    ELSE Return(sanitize_folder_name(fallback_value),
                StoreInCache(has_cache, file, key, fallback_value))

\* get_place_name, lines 452-471: village/suburb of a response without a name
RECURSIVE PartialResponse(_, _, _, _, _, _)
PartialResponse(address, i, key, has_cache, single_word_english, file) ==
    IF i > Len(RetryKeys) THEN GoOn(file)
    ELSE IF address.kind # "dict" THEN Raise("TypeError", file)
    ELSE IF HasField(address, RetryKeys[i])
    THEN PartialWith(Strip(address.d[RetryKeys[i]]),
                     to_single_word_english(Strip(address.d[RetryKeys[i]])),
                     key, has_cache, single_word_english, file,
                     PartialResponse(address, i + 1, key, has_cache,
                                     single_word_english, file))
    ELSE PartialResponse(address, i + 1, key, has_cache,
                         single_word_english, file)

\* What a loop over village and suburb returned, or else the fallback
\* (lines 435 and 474)
ReturnedOrFallback(r, fallback, file) ==
    IF r.done THEN r ELSE Return(fallback, file)

\* A single-word branch that caches the raw name when every attempt failed
SingleWordNameCachesRaw(name, converted, address_dict, key, fallback, has_cache, file) ==
    IF converted # Unknown
    THEN Return(converted, StoreInCache(has_cache, file, key, name))
    ELSE IF _name_to_safe_folder(name) # Unknown
    THEN Return(_name_to_safe_folder(name),
                StoreInCache(has_cache, file, key, name))
    ELSE IF _has_chinese_characters(name) /\ AddressTruthy(address_dict)
    THEN ReturnedOrFallback(
             SingleWordRetry(address_dict, 1, key, has_cache, file),
             fallback, StoreInCache(has_cache, file, key, name))
    ELSE Return(fallback, StoreInCache(has_cache, file, key, name))

\* get_place_name, lines 391-441: single-word mode, the lookup gave a name
SingleWordName(name, converted, address_dict, key, fallback, has_cache, file) ==
    IF converted # Unknown
    THEN Return(converted, StoreInCache(has_cache, file, key, name))
    ELSE IF _name_to_safe_folder(name) # Unknown
    THEN Return(_name_to_safe_folder(name),
                StoreInCache(has_cache, file, key, name))
    ELSE IF _has_chinese_characters(name) /\ AddressTruthy(address_dict)
    THEN ReturnedOrFallback(
             SingleWordRetry(address_dict, 1, key, has_cache, file),
             fallback, file)
    ELSE Return(fallback, file)

\* get_place_name, lines 388-474
WithName(name, address_dict, key, fallback, has_cache, single_word_english, file) ==
    IF Truthy(name)
    THEN IF single_word_english
         THEN SingleWordName(name, to_single_word_english(name),
                             address_dict, key, fallback, has_cache, file)
         ELSE Return(sanitize_folder_name(name),
                     StoreInCache(has_cache, file, key, name))
    ELSE IF name = None /\ AddressTruthy(address_dict)
    THEN ReturnedOrFallback(
             PartialResponse(address_dict, 1, key, has_cache,
                             single_word_english, file),
             fallback, file)
    ELSE Return(fallback, file)

\* get_place_name, line 387 on: unpacking a tuple that has not two values
\* raises ValueError
AfterLookup(fetched, key, fallback, has_cache, single_word_english, file) ==
    IF Len(fetched) # 2 THEN Raise("ValueError", file)
    ELSE WithName(fetched[1], fetched[2], key, fallback, has_cache,
                  single_word_english, file)

\* The outcome of a call: what it raised or returned, the cache file it
\* leaves, and whether it asked the service
Outcome(r, requested) ==
    [exc |-> r.exc, ret |-> r.ret, file |-> r.file, requested |-> requested]

\* get_place_name, lines 373-474: after the cache gave nothing
AfterCache(key, fallback, has_cache, use_network, single_word_english, file, resp) ==
    IF ~use_network THEN Outcome(Return(fallback, file), FALSE)
    ELSE Outcome(AfterLookup(_fetch_nominatim(resp), key, fallback,
                             has_cache, single_word_english, file), TRUE)

\* A call that asks the service although the cache gave a name
FromCacheOrElseAsking(cached, key, fallback, has_cache, use_network, single_word_english, resp) ==
    IF cached.done THEN Outcome(cached, TRUE)
    ELSE AfterCache(key, fallback, has_cache, use_network,
                    single_word_english, cached.file, resp)

\* get_place_name, lines 351-474, cached being what lines 351-371 gave
FromCacheOrElse(cached, key, fallback, has_cache, use_network, single_word_english, resp) ==
    IF cached.done THEN Outcome(cached, FALSE)
    ELSE AfterCache(key, fallback, has_cache, use_network,
                    single_word_english, cached.file, resp)

\* get_place_name: its outcome for the cache file as it is and the answer
\* resp of the service, should it be asked.
get_place_name(lat, lon, has_cache, use_network, single_word_english, cache_precision, file, resp) ==
    FromCacheOrElse(
        CacheLookup(_cache_key(lat, lon, cache_precision), has_cache,
                    single_word_english, file),
        _cache_key(lat, lon, cache_precision),
        CoordinateFallback(lat, lon, single_word_english),
        has_cache, use_network, single_word_english, resp)

----------------------------------------------------------------------------
(* config.py: load_config and _parse_location.  Distances and radii are in  *)
(* metres, so the literal 0.5 (km) of the source is 500.                    *)

DefaultRadius == 500
Uncategorized == <<"U","n","c","a","t","e","g","o","r","i","z","e","d">>

\* No configuration file at the path
NoConfigFile == [file |-> "missing", root |-> "dict", data |-> EmptyDict]

\* The root of a file and an item of "locations" are a dict (a function from
\* its keys) or some other JSON value.
DictItem(d) == [kind |-> "dict", d |-> d]
OtherItem == [kind |-> "other", d |-> EmptyDict]

\* What _parse_location or load_config gives: a value, or an exception
Parsed(value) == [exc |-> "", value |-> value]
Failed(exc) == [exc |-> exc, value |-> None]

\* _parse_location, lines 57-59
HasName(raw) == "name" \in DOMAIN raw /\ raw["name"] # <<>> /\ raw["name"] # NonText

\* raw.get("radius_km", 0.5)
RadiusOf(raw) == IF "radius_km" \in DOMAIN raw THEN raw["radius_km"] ELSE DefaultRadius

\* PointLocation(name=name, lat=lat, lon=lon, radius_km=radius_km)
PointLocation(name, at, radius_km) ==
    [kind |-> "point", name |-> name, lat |-> at["lat"], lon |-> at["lon"], radius_km |-> radius_km]

\* BoundsLocation(name=name, min_lat=..., max_lat=..., min_lon=..., max_lon=...)
BoundsLocation(name, b) ==
    [kind |-> "bounds", name |-> name, min_lat |-> b["min_lat"], max_lat |-> b["max_lat"], min_lon |-> b["min_lon"], max_lon |-> b["max_lon"]]

_parse_location(raw) ==
    IF ~HasName(raw) THEN Failed("ValueError")
    ELSE IF "bounds" \in DOMAIN raw
    THEN Parsed(BoundsLocation(raw["name"], raw["bounds"]))
    ELSE IF "center" \in DOMAIN raw
    THEN Parsed(PointLocation(raw["name"], raw["center"], RadiusOf(raw)))
    ELSE IF "point" \in DOMAIN raw
    THEN Parsed(PointLocation(raw["name"], raw["point"], RadiusOf(raw)))
    ELSE IF "lat" \in DOMAIN raw /\ "lon" \in DOMAIN raw
    THEN Parsed(PointLocation(raw["name"], raw, RadiusOf(raw)))
    ELSE Failed("ValueError")

\* load_config, lines 121-125, one item parsed and the rest after it
AppendParsed(parsed, rest) ==
    IF parsed.exc # "" THEN parsed
    ELSE IF rest.exc # "" THEN rest
    ELSE Parsed(<<parsed.value>> \o rest.value)

\* load_config, lines 121-125: items that are no dict are passed over
RECURSIVE ParseLocations(_)
ParseLocations(items) ==
    IF items = <<>> THEN Parsed(<<>>)
    ELSE IF Head(items).kind # "dict" THEN ParseLocations(Tail(items))
    ELSE AppendParsed(_parse_location(Head(items).d), ParseLocations(Tail(items)))

\* load_config, lines 131-133
BehaviorOf(data) ==
    IF "uncategorized_behavior" \in DOMAIN data /\ data["uncategorized_behavior"] \in {"folder", "leave_in_place"}
    THEN data["uncategorized_behavior"]
    ELSE "folder"

\* load_config, lines 135-137
FolderNameOf(data) ==
    IF "uncategorized_folder_name" \in DOMAIN data /\ data["uncategorized_folder_name"] # NonText
    THEN data["uncategorized_folder_name"]
    ELSE Uncategorized

\* load_config, line 144
MatchRadiusOf(data) ==
    IF "match_radius_km" \in DOMAIN data THEN data["match_radius_km"] ELSE DefaultRadius

\* load_config, lines 139-145
SorterConfig(parsed, data) ==
    IF parsed.exc # "" THEN parsed
    ELSE Parsed([locations |-> parsed.value,
                 uncategorized_behavior |-> BehaviorOf(data),
                 uncategorized_folder_name |-> FolderNameOf(data),
                 match_radius_km |-> MatchRadiusOf(data)])

\* load_config of a .json file
load_config(file) ==
    IF file.file = "missing" THEN Failed("FileNotFoundError")
    ELSE IF file.root # "dict" THEN Failed("ValueError")
    ELSE SorterConfig(ParseLocations(IF "locations" \in DOMAIN file.data THEN file.data["locations"] ELSE <<>>), file.data)

----------------------------------------------------------------------------
(* file_ops.py.  A directory is [state, files]: it is missing or a          *)
(* directory, and files maps each file name in it to the file's content.    *)

\* str.rfind("."): the last position of a dot, 0 when there is none
RECURSIVE LastDot(_)
LastDot(name) ==
    IF name = <<>> THEN 0
    ELSE IF name[Len(name)] = "." THEN Len(name)
    ELSE LastDot(SubSeq(name, 1, Len(name) - 1))

\* PurePath.suffix and PurePath.stem: a dot that starts or ends the name
\* begins no suffix
SuffixFrom(name, i) == IF 1 < i /\ i < Len(name) THEN SubSeq(name, i, Len(name)) ELSE <<>>
StemUpTo(name, i) == IF 1 < i /\ i < Len(name) THEN SubSeq(name, 1, i - 1) ELSE name
Suffix(name) == SuffixFrom(name, LastDot(name))
Stem(name) == StemUpTo(name, LastDot(name))

\* f"{stem} ({n}){suffix}"
Numbered(stem, n, suffix) == stem \o <<" ", "(">> \o NatText(n) \o <<")">> \o suffix

\* Path.exists() of dest_dir / filename
Exists(dir, filename) == dir.state = "dir" /\ filename \in DOMAIN dir.files

\* unique_destination_path, lines 28-33
RECURSIVE FirstFree(_, _, _, _)
FirstFree(dir, stem, suffix, n) ==
    IF ~Exists(dir, Numbered(stem, n, suffix)) THEN Numbered(stem, n, suffix)
    ELSE FirstFree(dir, stem, suffix, n + 1)

\* A variant that returns the plain path whether or not it is taken
unique_destination_path_plain(dir, filename) == filename

unique_destination_path(dir, filename) ==
    IF ~Exists(dir, filename) THEN filename
    ELSE FirstFree(dir, Stem(filename), Suffix(filename), 1)

ensure_directory(dir) == [state |-> "dir", files |-> dir.files]

\* dest_filename if dest_filename is not None else source.name
DestName(name, dest_filename) == IF dest_filename # None THEN dest_filename ELSE name

\* A file written into, or removed from, a directory
WithFile(dir, filename, content) == [state |-> "dir", files |-> DictSet(dir.files, filename, content)]
WithoutFile(dir, filename) == [state |-> dir.state, files |-> DictPop(dir.files, filename)]

----------------------------------------------------------------------------
(* location_matcher.py.  Latitudes and longitudes are whole degrees;        *)
(* distances and radii are in metres (km to three decimals).               *)

\* haversine_km for whole-degree coordinates with latitudes 0..2 and
\* longitudes at most one degree apart: the value of the source's formula
\* (R = 6371.0), rounded to the metre.  It depends on both latitudes and on
\* the difference of the longitudes.
HaversineTable ==
    [la \in 0..2 |-> [lb \in 0..2 |-> [dlon \in 0..1 |->
        CASE {la, lb} = {0}    -> IF dlon = 0 THEN 0 ELSE 111195
          [] {la, lb} = {1}    -> IF dlon = 0 THEN 0 ELSE 111178
          [] {la, lb} = {2}    -> IF dlon = 0 THEN 0 ELSE 111127
          [] {la, lb} = {0, 1} -> IF dlon = 0 THEN 111195 ELSE 157249
          [] {la, lb} = {1, 2} -> IF dlon = 0 THEN 111195 ELSE 157225
          [] {la, lb} = {0, 2} -> IF dlon = 0 THEN 222390 ELSE 248629]]]

Abs(x) == IF x < 0 THEN -x ELSE x

haversine_km(lat1, lon1, lat2, lon2) ==
    HaversineTable[lat1][lat2][Abs(lon2 - lon1)]

point_in_bounds_exclusive_max(lat, lon, loc) ==
    /\ loc.min_lat <= lat /\ lat < loc.max_lat
    /\ loc.min_lon <= lon /\ lon < loc.max_lon

point_in_bounds(lat, lon, loc) ==
    /\ loc.min_lat <= lat /\ lat <= loc.max_lat
    /\ loc.min_lon <= lon /\ lon <= loc.max_lon

match_point_location_strict(lat, lon, loc) ==
    LET d == haversine_km(lat, lon, loc.lat, loc.lon)
    IN  <<d < loc.radius_km, d>>

\* Returns <<matches, distance>>.
match_point_location(lat, lon, loc) ==
    LET d == haversine_km(lat, lon, loc.lat, loc.lon)
    IN  <<d <= loc.radius_km, d>>

\* match_location, lines 64-66: the first pass, from location i on
RECURSIVE FirstBoundsMatch(_, _, _, _)
FirstBoundsMatch(lat, lon, locs, i) ==
    IF i > Len(locs) THEN None
    ELSE IF locs[i].kind = "bounds" /\ point_in_bounds(lat, lon, locs[i])
         THEN locs[i].name
         ELSE FirstBoundsMatch(lat, lon, locs, i + 1)

NearestStepLastWins(lat, lon, loc, best) ==
    IF loc.kind = "point"
    THEN LET m == match_point_location(lat, lon, loc)
         IN  IF m[1] /\ (best.inf \/ m[2] <= best.dist_km)
             THEN [name |-> loc.name, inf |-> FALSE, dist_km |-> m[2]]
             ELSE best
    ELSE best

\* match_location, lines 73-77: one iteration of the second pass.  best holds
\* best_name and best_dist_km (inf: still float("inf")).
NearestStep(lat, lon, loc, best) ==
    IF loc.kind = "point"
    THEN LET m == match_point_location(lat, lon, loc)
         IN  IF m[1] /\ (best.inf \/ m[2] < best.dist_km)
             THEN [name |-> loc.name, inf |-> FALSE, dist_km |-> m[2]]
             ELSE best
    ELSE best

RECURSIVE NearestPoint(_, _, _, _, _)
NearestPoint(lat, lon, locs, i, best) ==
    IF i > Len(locs) THEN best
    ELSE NearestPoint(lat, lon, locs, i + 1,
                      NearestStep(lat, lon, locs[i], best))

match_location(lat, lon, config_locations) ==
    IF config_locations = <<>> THEN None
    ELSE LET b == FirstBoundsMatch(lat, lon, config_locations, 1)
         IN  IF b # None THEN b
             ELSE NearestPoint(lat, lon, config_locations, 1,
                      [name |-> None, inf |-> TRUE, dist_km |-> 0]).name

----------------------------------------------------------------------------
(* The text functions applied to bounded inputs.                            *)

MaxLen == 4

TextAlphabet == {"a", "B", "1", " ", ",", "/", "_", Jiu}

RECURSIVE StringsUpTo(_, _)
StringsUpTo(alphabet, n) ==
    IF n = 0 THEN {<<>>}
    ELSE LET shorter == StringsUpTo(alphabet, n - 1)
         IN  shorter \cup
             {Append(s, c) : s \in {t \in shorter : Len(t) = n - 1},
                             c \in alphabet}

\* The inputs of the repository's tests and of the documented examples.
Taipei101In == <<"T","a","i","p","e","i"," ","1","0","1">>
Taipei101Out == <<"T","a","i","p","e","i","1","0","1">>
TextSamples ==
    { Taipei101In,
      <<"Y","e","h","l","i","u"," ","G","e","o","p","a","r","k">>,
      <<"J","i","u","f","e","n",","," ","N","e","w">>,
      <<"a","b","c","d"," ","1","2","3","4">>,
      <<"a","b","c"," ","1","2","3","4">>,
      <<"1","2","3","4","5">>,
      <<"a",":","b","*","c","?","d","\"","e">>,
      <<"a","/","b","\\","c">>,
      <<" "," ","a","\t"," ","b"," ">>,
      <<"1","2","3","4","5","6"," ","1","2">>,
      <<"a"," ","b"," ","c"," ","d"," ","e"," ","f">>,
      Unknown,
      <<" ","U","n","k","n","o","w","n","|">> }

TextInputs == StringsUpTo(TextAlphabet, MaxLen) \cup TextSamples

\* config.py 45-52: SorterConfig(), no file read
DefaultConfig ==
    /\ rawConfig = NoConfigFile
    /\ loadStatus = "default"
    /\ locations = <<>>
    /\ match_radius_km = DefaultRadius
    /\ uncategorized_behavior = "folder"
    /\ uncategorized_folder_name = Uncategorized

MatchIdle ==
    /\ DefaultConfig
    /\ mLat = 0 /\ mLon = 0
    /\ mDone = FALSE
    /\ mResult = None

ClusterIdle ==
    /\ cRadius = 0
    /\ cA = <<Float(FALSE, 0), Float(FALSE, 0)>>
    /\ cB = <<Float(FALSE, 0), Float(FALSE, 0)>>
    /\ cDone = FALSE
    /\ cPrecision = 0
    /\ cKeyA = <<Float(FALSE, 0), Float(FALSE, 0)>>
    /\ cKeyB = <<Float(FALSE, 0), Float(FALSE, 0)>>

\* No call of get_place_name yet.
NoArgs ==
    [lat |-> Float(FALSE, 0), lon |-> Float(FALSE, 0), has_cache |-> FALSE,
     use_network |-> FALSE, single_word_english |-> FALSE,
     cache_precision |-> <<>>]
NotAsked ==
    [outcome |-> "not asked", address |-> NoAddress, display_name |-> <<>>]
NoOutcome == [exc |-> "", ret |-> None, requested |-> FALSE, arrived |-> 0]
NoHistory ==
    /\ gCalls = 0
    /\ gArgs = NoArgs
    /\ gResp = NotAsked
    /\ gOut = NoOutcome
    /\ gPrev = [args |-> NoArgs, out |-> NoOutcome]
    /\ gFileBefore = [state |-> "missing", data |-> EmptyDict]
    /\ reqTimes = <<>>

GeoIdle ==
    /\ cacheFile = [state |-> "missing", data |-> EmptyDict]
    /\ lastRequestTime = 0
    /\ now = 0
    /\ NoHistory

NoFileCall == [op |-> "none", from |-> "src", name |-> <<>>, dest_filename |-> None, srcBefore |-> EmptyDict, destBefore |-> EmptyDict, exc |-> "", ret |-> None]

FileIdle ==
    /\ srcDir = [state |-> "missing", files |-> EmptyDict]
    /\ destDir = [state |-> "missing", files |-> EmptyDict]
    /\ fCalls = 0
    /\ fCall = NoFileCall

RunIdle ==
    /\ rArgs = [input_is_dir |-> FALSE, total |-> 0, move |-> FALSE, geocode |-> FALSE, has_cache_path |-> FALSE, cluster_radius_km |-> 10, single_word_english |-> FALSE]
    /\ rPc = "main"
    /\ rI = 1
    /\ rPhotos = <<>>
    /\ rNoGps = <<>>
    /\ rClusters = <<>>
    /\ rSum = [sorted |-> 0, skipped_no_gps |-> 0, skipped_left_in_place |-> 0]
    /\ rErrors = <<>>
    /\ rOutputCreated = FALSE
    /\ rExc = ""
    /\ rExit = -1

\* The threads of the process: each is outside get_place_name ("idle"),
\* between lines 378 and 381 ("throttle"), or between lines 381 and 387
\* ("fetch").
Threads == {"A", "B"}
IdleThread == [pc |-> "idle", wake |-> 0, seen |-> 0, stamp |-> 0, ret |-> None]
ThreadsIdle == threads = [t \in Threads |-> IdleThread]

OtherIdle == FileIdle /\ RunIdle /\ ThreadsIdle

TextInit ==
    /\ hasUnidecode \in BOOLEAN
    /\ txtOp = "idle"
    /\ txtIn \in TextInputs
    /\ txtOut = <<>>
    /\ MatchIdle
    /\ ClusterIdle
    /\ OtherIdle
    /\ GeoIdle

CallToSingleWord ==
    /\ txtOp = "idle"
    /\ txtOp' = "to_single_word_english"
    /\ txtOut' = to_single_word_english(txtIn)
    /\ UNCHANGED <<hasUnidecode, txtIn, matchVars, clusterVars, otherVars, runVars, geoVars>>

CallSanitize ==
    /\ txtOp = "idle"
    /\ txtOp' = "sanitize_folder_name"
    /\ txtOut' = sanitize_folder_name(txtIn)
    /\ UNCHANGED <<hasUnidecode, txtIn, matchVars, clusterVars, otherVars, runVars, geoVars>>

CallNameToSafeFolder ==
    /\ txtOp = "idle"
    /\ txtOp' = "_name_to_safe_folder"
    /\ txtOut' = _name_to_safe_folder(txtIn)
    /\ UNCHANGED <<hasUnidecode, txtIn, matchVars, clusterVars, otherVars, runVars, geoVars>>

\* sanitize_folder_name applied to its own result
CallSanitizeAgain ==
    /\ txtOp = "sanitize_folder_name"
    /\ txtOp' = "sanitize_again"
    /\ txtIn' = txtOut
    /\ txtOut' = sanitize_folder_name(txtOut)
    /\ UNCHANGED <<hasUnidecode, matchVars, clusterVars, otherVars, runVars, geoVars>>

TextNext ==
    \/ CallToSingleWord
    \/ CallNameToSafeFolder
    \/ CallSanitize
    \/ CallSanitizeAgain

SpecText == TextInit /\ [][TextNext]_vars

----------------------------------------------------------------------------
(* match_location applied to bounded configurations.                        *)

MaxLocs == 3

Lats == 0..2
Lons == 0..1
\* 111.195 km is the distance between neighbouring latitudes, 111.178 km the
\* distance between the two longitudes at latitude 1.
Radii == {111178, 111195}

\* The name of the i-th declared location: "A", "B", ...
LocName(i) == <<UpperLetters[i]>>

BoundsLocations(name) ==
    {[kind |-> "bounds", name |-> name, min_lat |-> a, max_lat |-> b,
      min_lon |-> c, max_lon |-> d] :
        <<a, b>> \in {r \in Lats \X Lats : r[1] <= r[2]},
        <<c, d>> \in {r \in Lons \X Lons : r[1] <= r[2]}}
PointLocations(name) ==
    {[kind |-> "point", name |-> name, lat |-> a, lon |-> b,
      radius_km |-> r] : a \in Lats, b \in Lons, r \in Radii}

TextIdle ==
    /\ hasUnidecode = FALSE
    /\ txtOp = "idle"
    /\ txtIn = <<>>
    /\ txtOut = <<>>

MatchInit == MatchIdle /\ TextIdle /\ ClusterIdle /\ GeoIdle /\ OtherIdle

\* config.py 122-125: load_config appends the parsed locations in order.
AddLocation ==
    /\ ~mDone
    /\ Len(locations) < MaxLocs
    /\ \E loc \in BoundsLocations(LocName(Len(locations) + 1))
                  \cup PointLocations(LocName(Len(locations) + 1)) :
           locations' = Append(locations, loc)
    /\ UNCHANGED <<mLat, mLon, mDone, mResult, configVars, textVars,
                   clusterVars, otherVars, runVars, geoVars>>

MatchLocation ==
    /\ ~mDone
    /\ \E lat \in Lats, lon \in Lons :
           /\ mLat' = lat
           /\ mLon' = lon
           /\ mResult' = match_location(lat, lon, locations)
    /\ mDone' = TRUE
    /\ UNCHANGED <<locations, configVars, textVars, clusterVars, otherVars, runVars, geoVars>>

MatchNext == AddLocation \/ MatchLocation

SpecMatch == MatchInit /\ [][MatchNext]_vars

----------------------------------------------------------------------------
(* cluster_key applied to bounded radii and coordinates.                    *)

\* Radii in whole km, on both sides of every step of the precision.
ClusterRadii == {-1, 0, 1, 2, 9, 10, 49, 50, 51}

ClusterLats ==
    {Float(FALSE, 250300), Float(FALSE, 250339), Float(FALSE, 250500),
     Float(FALSE, 25000), Float(TRUE, 40), Float(FALSE, 40)}
ClusterLons ==
    {Float(FALSE, 1215600), Float(FALSE, 1215645), Float(FALSE, 1215800),
     Float(TRUE, 5000)}

ClusterInit ==
    /\ cRadius \in ClusterRadii
    /\ cA \in ClusterLats \X ClusterLons
    /\ cB \in ClusterLats \X ClusterLons
    /\ cDone = FALSE
    /\ cPrecision = 0
    /\ cKeyA = <<Float(FALSE, 0), Float(FALSE, 0)>>
    /\ cKeyB = <<Float(FALSE, 0), Float(FALSE, 0)>>
    /\ TextIdle
    /\ MatchIdle
    /\ GeoIdle
    /\ OtherIdle

\* cli.py 125 and 140: the precision of the run and the key of each photo
ClusterKeys ==
    /\ ~cDone
    /\ cDone' = TRUE
    /\ cPrecision' = cluster_precision_from_radius_km(cRadius)
    /\ cKeyA' = cluster_key(cA[1], cA[2], cRadius)
    /\ cKeyB' = cluster_key(cB[1], cB[2], cRadius)
    /\ UNCHANGED <<cRadius, cA, cB, textVars, matchVars, geoVars, otherVars, runVars>>

ClusterNext == ClusterKeys

SpecCluster == ClusterInit /\ [][ClusterNext]_vars

----------------------------------------------------------------------------
(* load_config applied to bounded configuration files, and match_location   *)
(* on what it loaded.                                                       *)

MaxRawLocs == 2

\* Dicts with the given fields, each optional field present or not
WithOptional(d, key, values) == {d} \cup {DictSet(d, key, v) : v \in values}

\* Point locations in each of the three forms, with and without "radius_km"
RawPoints(name) ==
    WithOptional([name |-> name, point |-> [lat |-> 0, lon |-> 0]], "radius_km", {111195})
    \cup WithOptional([name |-> name, center |-> [lat |-> 1, lon |-> 1]], "radius_km", {111195})
    \cup { [name |-> name, lat |-> 0, lon |-> 0] }

RawBounds(name) ==
    { [name |-> name, bounds |-> [min_lat |-> 2, max_lat |-> 2, min_lon |-> 0, max_lon |-> 1]] }

\* An item without a name, one with an empty name, one without a geometry
RawInvalid(name) ==
    { [point |-> [lat |-> 0, lon |-> 0]], [name |-> <<>>, lat |-> 0, lon |-> 0], [name |-> name] }

RawItems(name) ==
    {OtherItem} \cup { DictItem(d) : d \in RawPoints(name) \cup RawBounds(name) \cup RawInvalid(name) }

RECURSIVE RawLists(_)
RawLists(n) ==
    IF n = 0 THEN {<<>>}
    ELSE RawLists(n - 1) \cup { Append(l, i) : l \in { x \in RawLists(n - 1) : Len(x) = n - 1 }, i \in RawItems(LocName(n)) }

Misc == <<"M","i","s","c","/","2">>

RawRoots ==
    UNION { WithOptional(d, "uncategorized_folder_name", {Misc, NonText}) :
      d \in UNION { WithOptional(e, "uncategorized_behavior", {"leave_in_place", "archive"}) :
        e \in UNION { WithOptional(f, "match_radius_km", {DefaultRadius, 157249}) :
          f \in {EmptyDict} \cup { [locations |-> l] : l \in RawLists(MaxRawLocs) } } } }

ConfigFiles ==
    { NoConfigFile, [file |-> "json", root |-> "other", data |-> EmptyDict] }
    \cup { [file |-> "json", root |-> "dict", data |-> d] : d \in RawRoots }

ConfigInit ==
    /\ rawConfig \in ConfigFiles
    /\ loadStatus = "default"
    /\ locations = <<>>
    /\ match_radius_km = DefaultRadius
    /\ uncategorized_behavior = "folder"
    /\ uncategorized_folder_name = Uncategorized
    /\ mLat = 0 /\ mLon = 0 /\ mDone = FALSE /\ mResult = None
    /\ TextIdle
    /\ ClusterIdle
    /\ OtherIdle
    /\ GeoIdle

\* cli.py 383-391: main loads the configuration
LoadConfig ==
    /\ loadStatus = "default"
    /\ \E r \in {load_config(rawConfig)} :
           IF r.exc # ""
           THEN /\ loadStatus' = r.exc
                /\ UNCHANGED <<locations, match_radius_km, uncategorized_behavior, uncategorized_folder_name>>
           ELSE /\ loadStatus' = "ok"
                /\ locations' = r.value.locations
                /\ match_radius_km' = r.value.match_radius_km
                /\ uncategorized_behavior' = r.value.uncategorized_behavior
                /\ uncategorized_folder_name' = r.value.uncategorized_folder_name
    /\ UNCHANGED <<rawConfig, mLat, mLon, mDone, mResult, textVars, clusterVars, otherVars, runVars, geoVars>>

\* match_location with the configuration that was loaded
MatchLoaded == loadStatus = "ok" /\ MatchLocation

ConfigNext == LoadConfig \/ MatchLoaded

SpecConfig == ConfigInit /\ [][ConfigNext]_vars

----------------------------------------------------------------------------
(* copy_image and move_image called on a directory of photos and a          *)
(* destination directory.                                                   *)

MaxFileCalls == 3

NameAj == <<"a", ".", "j">>
NameDotJ == <<".", "j">>
NameA == <<"a">>
NameBj == <<"b", ".", "j">>
NameAj1 == <<"a", " ", "(", "1", ")", ".", "j">>
NameAj2 == <<"a", " ", "(", "2", ")", ".", "j">>

\* The photos to copy or move, and what the destination holds already
Photos == [state |-> "dir", files |-> (NameAj :> "p") @@ (NameDotJ :> "q") @@ (NameA :> "r")]

FilesOver(names) == [state |-> "dir", files |-> [n \in names |-> "old"]]

DestDirs ==
    { [state |-> "missing", files |-> EmptyDict] } \cup { FilesOver(names) : names \in SUBSET {NameAj, NameAj1, NameAj2} }

SourceNames == {NameAj, NameDotJ, NameA, NameAj1}

FileInit ==
    /\ srcDir = Photos
    /\ destDir \in DestDirs
    /\ fCalls = 0
    /\ fCall = NoFileCall
    /\ RunIdle
    /\ ThreadsIdle
    /\ TextIdle
    /\ MatchIdle
    /\ ClusterIdle
    /\ GeoIdle

\* The directory a source path lies in
DirOf(from) == IF from = "src" THEN srcDir ELSE destDir

FileCallOf(op, from, name, dest_filename, exc, ret) ==
    [op |-> op, from |-> from, name |-> name, dest_filename |-> dest_filename, srcBefore |-> srcDir.files, destBefore |-> destDir.files, exc |-> exc, ret |-> ret]

\* shutil.copy2 / shutil.move of a source that does not exist: the destination
\* directory has been created by then
SourceMissing(op, from, name, dest_filename) ==
    /\ destDir' = ensure_directory(destDir)
    /\ srcDir' = srcDir
    /\ fCall' = FileCallOf(op, from, name, dest_filename, "FileNotFoundError", None)

\* copy_image, lines 43-47, with dest_path the path chosen on line 45
CopyTo(from, name, dest_filename, dest_path) ==
    /\ destDir' = WithFile(destDir, dest_path, DirOf(from).files[name])
    /\ srcDir' = srcDir
    /\ fCall' = FileCallOf("copy", from, name, dest_filename, "", dest_path)

\* move_image, lines 57-61
MoveTo(from, name, dest_filename, dest_path) ==
    /\ IF from = "src"
       THEN /\ srcDir' = WithoutFile(srcDir, name)
            /\ destDir' = WithFile(destDir, dest_path, srcDir.files[name])
       ELSE /\ srcDir' = srcDir
            /\ destDir' = WithFile(WithoutFile(destDir, name), dest_path, destDir.files[name])
    /\ fCall' = FileCallOf("move", from, name, dest_filename, "", dest_path)

CopyImage ==
    /\ fCalls < MaxFileCalls
    /\ fCalls' = fCalls + 1
    /\ \E from \in {"src", "dest"}, name \in SourceNames, dest_filename \in {None, NameBj} :
           IF ~Exists(DirOf(from), name)
           THEN SourceMissing("copy", from, name, dest_filename)
           ELSE CopyTo(from, name, dest_filename, unique_destination_path(destDir, DestName(name, dest_filename)))
    /\ UNCHANGED <<textVars, matchVars, clusterVars, geoVars, runVars, threadVars>>

MoveImage ==
    /\ fCalls < MaxFileCalls
    /\ fCalls' = fCalls + 1
    /\ \E from \in {"src", "dest"}, name \in SourceNames, dest_filename \in {None, NameBj} :
           IF ~Exists(DirOf(from), name)
           THEN SourceMissing("move", from, name, dest_filename)
           ELSE MoveTo(from, name, dest_filename, unique_destination_path(destDir, DestName(name, dest_filename)))
    /\ UNCHANGED <<textVars, matchVars, clusterVars, geoVars, runVars, threadVars>>

FileNext == CopyImage \/ MoveImage

SpecFile == FileInit /\ [][FileNext]_vars

----------------------------------------------------------------------------
(* get_place_name called on bounded coordinates, caches and responses.      *)

MaxAddrFields == 2
MaxCalls == 3
MaxTime == 30

\* 25.0339, 121.5645 and -0.004, 25.05
GeoCoords ==
    { <<Float(FALSE, 250339), Float(FALSE, 1215645)>>,
      <<Float(TRUE, 40), Float(FALSE, 250500)>> }

NameAb == <<"A","b">>
NameA1 == <<"A","1">>
Name123 == <<"1","2","3">>
NameJiu == <<Jiu>>
AddressTexts == {NameAb, NameA1, Name123, NameJiu}
AddressKeys ==
    {"tourism", "suburb", "village", "town", "city_district", "city"}

\* The address objects with at most MaxAddrFields fields
Addresses ==
    { DictAddress(d) :
        d \in UNION { [ks -> AddressTexts] :
                        ks \in { k \in SUBSET AddressKeys :
                                   Cardinality(k) <= MaxAddrFields } } }

DisplayNames == { <<>>, <<"A","b",","," ","1","2","3">> }

FailedOutcomes ==
    {"URLError", "HTTPError", "status", "no JSON", "no object", "error"}

Responses ==
    { [outcome |-> o, address |-> NoAddress, display_name |-> <<>>] :
        o \in FailedOutcomes }
    \cup { [outcome |-> "ok", address |-> a, display_name |-> n] :
             a \in Addresses \cup {NumberAddress}, n \in DisplayNames }

CallArgs ==
    { [lat |-> c[1], lon |-> c[2], has_cache |-> h, use_network |-> u,
       single_word_english |-> w, cache_precision |-> p] :
        c \in GeoCoords, h \in BOOLEAN, u \in BOOLEAN, w \in BOOLEAN,
        p \in {<<>>, <<1>>} }

\* A throttle that takes the timestamp for 0 whatever it is
ThrottleIgnoringStamp(t, last) ==
    IF t < NOMINATIM_DELAY_SEC THEN NOMINATIM_DELAY_SEC ELSE t

\* A throttle that never waits
ThrottleWithoutSleep(t, last) == t

\* lines 378-380: the time at which the caller goes on to line 381, having
\* arrived at time t
Throttle(t, last) ==
    LET elapsed == t - last
    IN  IF elapsed < NOMINATIM_DELAY_SEC
        THEN t + (NOMINATIM_DELAY_SEC - elapsed)
        ELSE t

\* One call of get_place_name.  lag: by how much the clock read on line 381
\* is later than the throttle asks (time.sleep may sleep longer);
\* fetch_time: how long the request takes.
GetPlaceName(args, resp, lag, fetch_time) ==
    \E r \in { get_place_name(args.lat, args.lon, args.has_cache,
                              args.use_network, args.single_word_english,
                              args.cache_precision, cacheFile, resp) } :
        LET started == Throttle(now, lastRequestTime) + lag
        IN  /\ gCalls' = gCalls + 1
            /\ gPrev' = [args |-> gArgs, out |-> gOut]
            /\ gArgs' = args
            /\ gOut' = [exc |-> r.exc, ret |-> r.ret,
                        requested |-> r.requested, arrived |-> now]
            /\ gFileBefore' = cacheFile
            /\ cacheFile' = r.file
            /\ IF r.requested
               THEN /\ gResp' = resp
                    /\ lastRequestTime' = started
                    /\ reqTimes' = Append(reqTimes, started)
                    /\ now' = started + fetch_time
               ELSE /\ gResp' = NotAsked
                    /\ UNCHANGED <<lastRequestTime, reqTimes, now>>
            /\ UNCHANGED <<textVars, matchVars, clusterVars, otherVars>>

GeoTextIdle == txtOp = "idle" /\ txtIn = <<>> /\ txtOut = <<>>

\* The cache files a call may find: none, one that holds no JSON object, an
\* empty one, one holding an entry for the first coordinate, and one
\* holding an entry for each coordinate.
CachedValues ==
    { NameAb, NameA1, Name123, <<>>, NonText,
      <<"L","a","t","L","o","n">> }
TwoEntries ==
    [state |-> "dict",
     data |-> DictSet(DictSet(EmptyDict,
                _cache_key(Float(FALSE, 250339),
                           Float(FALSE, 1215645), <<>>), Name123),
                _cache_key(Float(TRUE, 40),
                           Float(FALSE, 250500), <<>>), NameAb)]
CacheFiles ==
    { [state |-> "missing", data |-> EmptyDict],
      [state |-> "corrupt", data |-> EmptyDict],
      [state |-> "dict", data |-> EmptyDict] }
    \cup { [state |-> "dict",
            data |-> DictSet(EmptyDict,
                       _cache_key(Float(FALSE, 250339),
                                  Float(FALSE, 1215645), <<>>), v)] :
             v \in CachedValues }
    \cup { TwoEntries }

\* The cache files on which a call without cache handle is tried: such a
\* call skips lines 351-371 and every store, whatever the file holds.
NoHandleFiles == { [state |-> "missing", data |-> EmptyDict], TwoEntries }

\* A single call, from any cache file.
GeoInit ==
    /\ hasUnidecode \in BOOLEAN
    /\ GeoTextIdle
    /\ MatchIdle
    /\ ClusterIdle
    /\ OtherIdle
    /\ cacheFile \in CacheFiles
    /\ lastRequestTime = 0
    /\ now = NOMINATIM_DELAY_SEC
    /\ NoHistory

GeoCall ==
    /\ gCalls = 0
    /\ \E args \in CallArgs :
           /\ args.has_cache \/ cacheFile \in NoHandleFiles
           /\ \E resp \in IF args.use_network THEN Responses ELSE {NotAsked} :
                  GetPlaceName(args, resp, 0, 0)
    /\ UNCHANGED runVars

GeoNext == GeoCall

SpecGeo == GeoInit /\ [][GeoNext]_vars

\* A call with the network and an empty cache, then the same call without
\* the network.
RoundTripInit ==
    /\ hasUnidecode \in BOOLEAN
    /\ GeoTextIdle
    /\ MatchIdle
    /\ ClusterIdle
    /\ OtherIdle
    /\ cacheFile \in { [state |-> "missing", data |-> EmptyDict],
                       [state |-> "dict", data |-> EmptyDict] }
    /\ lastRequestTime = 0
    /\ now = NOMINATIM_DELAY_SEC
    /\ NoHistory

NetworkCall ==
    /\ gCalls = 0
    /\ \E args \in CallArgs, resp \in Responses :
           /\ args.has_cache /\ args.use_network
           /\ GetPlaceName(args, resp, 0, 0)
    /\ UNCHANGED runVars

OfflineCall ==
    /\ gCalls = 1
    /\ gOut.exc = ""
    /\ \E args \in {[gArgs EXCEPT !.use_network = FALSE]} :
           \E resp \in {NotAsked} : GetPlaceName(args, resp, 0, 0)
    /\ UNCHANGED runVars

RoundTripNext == NetworkCall \/ OfflineCall

SpecRoundTrip == RoundTripInit /\ [][RoundTripNext]_vars

\* A sequence of calls in one process, time passing between them.
RateResponses ==
    { [outcome |-> "URLError", address |-> NoAddress, display_name |-> <<>>],
      [outcome |-> "ok",
       address |-> DictAddress(DictSet(EmptyDict, "suburb", NameAb)),
       display_name |-> <<>>],
      [outcome |-> "ok",
       address |-> DictAddress(DictSet(EmptyDict, "city", NameAb)),
       display_name |-> <<>>] }

RateArgs ==
    { a \in CallArgs : /\ ~a.single_word_english
                       /\ a.cache_precision = <<>>
                       /\ ~a.lat.neg }

RateInit ==
    /\ TextIdle
    /\ MatchIdle
    /\ ClusterIdle
    /\ OtherIdle
    /\ cacheFile = [state |-> "missing", data |-> EmptyDict]
    /\ lastRequestTime = 0
    /\ now \in {0, 20}
    /\ NoHistory

RateCall ==
    /\ gCalls < MaxCalls
    /\ \E args \in RateArgs :
           \E resp \in IF args.use_network THEN RateResponses
                        ELSE {NotAsked} :
               \E lag \in {0, 1}, fetch_time \in {0, 12} :
                   GetPlaceName(args, resp, lag, fetch_time)
    /\ UNCHANGED runVars

\* The caller does something else between two calls.
TimePasses ==
    /\ now < MaxTime
    /\ now' = now + 5
    /\ UNCHANGED <<cacheFile, lastRequestTime, gCalls, gArgs, gResp, gOut,
                   gPrev, gFileBefore, reqTimes, textVars, matchVars,
                   clusterVars, otherVars, runVars>>

RateNext == RateCall \/ TimePasses

SpecRate == RateInit /\ [][RateNext]_vars

----------------------------------------------------------------------------
(* get_place_name called from two threads of one process.  The calls have   *)
(* no cache handle and use the network, so each goes from line 346 straight *)
(* to the throttle.  A thread may be preempted between reading the          *)
(* timestamp (line 378) and writing it (line 381).                          *)

ThreadArgs == { a \in RateArgs : ~a.has_cache /\ a.use_network }

ThreadsInit ==
    /\ TextIdle
    /\ MatchIdle
    /\ ClusterIdle
    /\ FileIdle
    /\ RunIdle
    /\ ThreadsIdle
    /\ cacheFile = [state |-> "missing", data |-> EmptyDict]
    /\ lastRequestTime = 0
    /\ now \in {0, 20}
    /\ NoHistory

\* The calls begun so far
CallsBegun == Len(reqTimes) + Cardinality({ t \in Threads : threads[t].pc = "throttle" })

\* Lines 346-380 up to the sleep: the thread reads the clock and the
\* timestamp, and will sleep until wake.  seen: how many requests had been
\* stamped when it read.
ThreadThrottle(t) ==
    /\ threads[t].pc = "idle"
    /\ CallsBegun < MaxCalls
    /\ threads' = [threads EXCEPT ![t] =
                     [pc |-> "throttle",
                      wake |-> Throttle(now, lastRequestTime),
                      seen |-> Len(reqTimes), stamp |-> 0, ret |-> None]]
    /\ UNCHANGED <<geoVars, textVars, matchVars, clusterVars, fileVars, runVars>>

\* Line 381, once the sleep is over: the thread writes the timestamp; its
\* request starts.  stamp: the index of its request.
ThreadStamp(t) ==
    /\ threads[t].pc = "throttle"
    /\ now >= threads[t].wake
    /\ lastRequestTime' = now
    /\ reqTimes' = Append(reqTimes, now)
    /\ threads' = [threads EXCEPT ![t].pc = "fetch",
                                  ![t].stamp = Len(reqTimes) + 1]
    /\ UNCHANGED <<cacheFile, now, gCalls, gArgs, gResp, gOut, gPrev,
                   gFileBefore, textVars, matchVars, clusterVars, fileVars,
                   runVars>>

\* Lines 387-474: the answer arrives and the call returns (or raises, which
\* leaves None).
ThreadFetch(t) ==
    /\ threads[t].pc = "fetch"
    /\ \E args \in ThreadArgs, resp \in RateResponses :
           threads' = [threads EXCEPT
               ![t].pc = "idle",
               ![t].ret = get_place_name(args.lat, args.lon, FALSE, TRUE,
                                         args.single_word_english,
                                         args.cache_precision, cacheFile,
                                         resp).ret]
    /\ UNCHANGED <<geoVars, textVars, matchVars, clusterVars, fileVars, runVars>>

\* Time passes: five tenths of a second, or until a sleeping thread's time
\* has come.
ThreadTick ==
    /\ now < MaxTime
    /\ now' \in {now + 5}
                \cup { threads[t].wake :
                         t \in { u \in Threads : /\ threads[u].pc = "throttle"
                                                 /\ threads[u].wake > now } }
    /\ UNCHANGED <<cacheFile, lastRequestTime, gCalls, gArgs, gResp, gOut,
                   gPrev, gFileBefore, reqTimes, textVars, matchVars,
                   clusterVars, otherVars, runVars>>

ThreadsNext ==
    \/ \E t \in Threads : ThreadThrottle(t)
    \/ \E t \in Threads : ThreadStamp(t)
    \/ \E t \in Threads : ThreadFetch(t)
    \/ ThreadTick

SpecThreads == ThreadsInit /\ [][ThreadsNext]_vars

----------------------------------------------------------------------------
(* cli.py: main and run.  run is followed loop by loop, one image file per  *)
(* step.  What get_gps_from_image gives for a file and whether its copy or  *)
(* move succeeds are chosen when the file is reached.                       *)

MaxPhotos == 3

Skipped == <<"S","k","i","p","p","e","d">>

\* shutil.copy2 / shutil.move return, or raise
FileOutcomes == {"ok", "OSError"}

\* Coordinates of photos in auto mode: one alone, and two that share a
\* cluster at a radius of 10 km, their keys being (-0.0, 25.1) and (0.0, 25.1)
AutoCoords ==
    { <<Float(FALSE, 250339), Float(FALSE, 1215645)>>,
      <<Float(TRUE, 40), Float(FALSE, 250500)>>,
      <<Float(FALSE, 40), Float(FALSE, 250500)>> }

\* Coordinates of photos in config mode, in whole degrees
GridCoords == { <<0, 0>>, <<1, 0>>, <<2, 1>> }

\* get_gps_from_image: None, an exception, or a coordinate
GpsOutcomes(coords) ==
    { [gps |-> "none", at |-> <<>>], [gps |-> "error", at |-> <<>>] } \cup { [gps |-> "coord", at |-> c] : c \in coords }

NameAspaceB == <<"a", " ", "b">>

\* The configurations run is given: none (auto mode), a point, a bounds
\* location followed by a point
RunLocations ==
    { <<>>,
      <<[kind |-> "point", name |-> NameAspaceB, lat |-> 0, lon |-> 0, radius_km |-> 111195]>>,
      <<[kind |-> "bounds", name |-> LocName(1), min_lat |-> 0, max_lat |-> 0, min_lon |-> 0, max_lon |-> 1],
        [kind |-> "point", name |-> LocName(2), lat |-> 1, lon |-> 0, radius_km |-> DefaultRadius]>> }

RunArgs ==
    [input_is_dir : BOOLEAN, total : 0..MaxPhotos, move : BOOLEAN, geocode : BOOLEAN, has_cache_path : BOOLEAN, cluster_radius_km : {1, 10}, single_word_english : BOOLEAN]

\* The cache file run finds: none, or one with a name for the key "25.0,121.6"
RunCaches ==
    { [state |-> "missing", data |-> EmptyDict],
      [state |-> "dict", data |-> DictSet(EmptyDict, <<"2","5",".","0",",","1","2","1",".","6">>, NameAb)] }

UnreadPhoto == [gps |-> "unread", at |-> <<>>, dest |-> None, op |-> "none", result |-> ""]

\* Config mode is run without geocoding, auto mode with the default
\* handling of unmatched photos (neither is read in the other mode).  The
\* cache file holds an entry only where run can read it.
RunInit ==
    /\ rArgs \in RunArgs
    /\ locations \in RunLocations
    /\ uncategorized_behavior \in {"folder", "leave_in_place"}
    /\ uncategorized_folder_name \in {Uncategorized, Misc}
    /\ cacheFile \in RunCaches
    /\ IF locations = <<>>
       THEN /\ uncategorized_behavior = "folder" /\ uncategorized_folder_name = Uncategorized
            /\ rArgs.geocode \/ rArgs.has_cache_path
            /\ cacheFile.state = "dict" => rArgs.geocode /\ rArgs.has_cache_path /\ rArgs.cluster_radius_km = 10
       ELSE ~rArgs.geocode /\ ~rArgs.has_cache_path /\ rArgs.cluster_radius_km = 10 /\ cacheFile.state = "missing"
    /\ rawConfig = NoConfigFile
    /\ loadStatus = "default"
    /\ match_radius_km = DefaultRadius
    /\ mLat = 0 /\ mLon = 0 /\ mDone = FALSE /\ mResult = None
    /\ lastRequestTime = 0
    /\ now = 0
    /\ NoHistory
    /\ TextIdle
    /\ ClusterIdle
    /\ FileIdle
    /\ ThreadsIdle
    /\ rPc = "main"
    /\ rI = 1
    /\ rPhotos = <<>>
    /\ rNoGps = <<>>
    /\ rClusters = <<>>
    /\ rSum = [sorted |-> 0, skipped_no_gps |-> 0, skipped_left_in_place |-> 0]
    /\ rErrors = <<>>
    /\ rOutputCreated = FALSE
    /\ rExc = ""
    /\ rExit = -1

\* A precondition check that lets every input path through
NotADirectoryNever(args) == FALSE

\* main, lines 402-421, and run, lines 61-98: the precondition, the output
\* directory, the image files
NotADirectory(args) == ~args.input_is_dir

\* A mode selection that takes every configuration for an empty one
auto_mode_always(config_locations) == TRUE

\* line 98: auto_mode = len(config.locations) == 0
auto_mode(config_locations) == Len(config_locations) = 0

StartRun ==
    /\ rPc = "main"
    /\ IF NotADirectory(rArgs)
       THEN /\ rExc' = "NotADirectoryError"
            /\ rPc' = "raised"
            /\ rExit' = 1
            /\ UNCHANGED <<rPhotos, rOutputCreated>>
       ELSE /\ rOutputCreated' = TRUE
            /\ rPhotos' = [i \in 1..rArgs.total |-> UnreadPhoto]
            /\ rPc' = IF rArgs.total = 0 THEN "returned" ELSE IF auto_mode(locations) THEN "gps" ELSE "config"
            /\ rExit' = IF rArgs.total = 0 THEN 0 ELSE rExit
            /\ rExc' = rExc
    /\ UNCHANGED <<rArgs, rI, rNoGps, rClusters, rSum, rErrors, textVars, matchVars, clusterVars, geoVars, otherVars>>

\* The end of one pass of a loop: the next item, or what follows the loop;
\* main returns 0 when run returns
Advance(last, next) ==
    /\ rPc' = IF last THEN next ELSE rPc
    /\ rI' = IF last THEN 1 ELSE rI + 1
    /\ rExit' = IF last /\ next = "returned" THEN 0 ELSE rExit
    /\ UNCHANGED <<rArgs, rOutputCreated, rExc>>

\* lines 148 and 171: a loop over nothing is passed over
AfterNoGps(clusters) == IF clusters # <<>> THEN "resolve" ELSE "returned"
AfterGps(no_gps_paths, clusters) == IF no_gps_paths # <<>> THEN "nogps" ELSE AfterNoGps(clusters)

\* Equality of two dict keys (tuples of floats): -0.0 == 0.0
SameKey(a, b) == FloatEq(a[1], b[1]) /\ FloatEq(a[2], b[2])
KeyIndex(clusters, key) == { k \in 1..Len(clusters) : SameKey(clusters[k].key, key) }

\* line 141: cluster_to_paths[center].append(...); a new key goes last and
\* an equal key keeps the key object that was inserted first
AppendToCluster(clusters, key, i, found) ==
    IF found = {}
    THEN Append(clusters, [key |-> key, paths |-> <<i>>, folder |-> None, looked_up |-> <<>>])
    ELSE [clusters EXCEPT ![CHOOSE k \in found : TRUE].paths = Append(@, i)]

\* lines 129-145: the GPS of one image file, auto mode
ReadGps ==
    /\ rPc = "gps"
    /\ \E g \in GpsOutcomes(AutoCoords) :
           /\ rPhotos' = [rPhotos EXCEPT ![rI].gps = g.gps, ![rI].at = g.at]
           /\ rNoGps' = IF g.gps = "none" THEN Append(rNoGps, rI) ELSE rNoGps
           /\ rErrors' = IF g.gps = "error" THEN Append(rErrors, rI) ELSE rErrors
           /\ \E key \in IF g.gps = "coord" THEN {cluster_key(g.at[1], g.at[2], rArgs.cluster_radius_km)} ELSE {<<>>} :
                  rClusters' = IF g.gps = "coord" THEN AppendToCluster(rClusters, key, rI, KeyIndex(rClusters, key)) ELSE rClusters
    /\ Advance(rI = rArgs.total, AfterGps(rNoGps', rClusters'))
    /\ UNCHANGED <<rSum, textVars, matchVars, clusterVars, geoVars, otherVars>>

\* A handler that records the failure of a file operation twice
FileOperationRecordsTwice(i, g, dest, outcome, no_gps) ==
    /\ rPhotos' = [rPhotos EXCEPT ![i] = [gps |-> g.gps, at |-> g.at, dest |-> dest, op |-> IF rArgs.move THEN "move" ELSE "copy", result |-> outcome]]
    /\ rSum' = IF outcome = "ok" THEN [rSum EXCEPT !.sorted = @ + 1, !.skipped_no_gps = @ + no_gps] ELSE rSum
    /\ rErrors' = IF outcome = "ok" THEN rErrors ELSE rErrors \o <<i, i>>

\* A handler that counts a photo without GPS as sorted only
FileOperationSortedOnly(i, g, dest, outcome, no_gps) ==
    /\ rPhotos' = [rPhotos EXCEPT ![i] = [gps |-> g.gps, at |-> g.at, dest |-> dest, op |-> IF rArgs.move THEN "move" ELSE "copy", result |-> outcome]]
    /\ rSum' = IF outcome = "ok" THEN [rSum EXCEPT !.sorted = @ + 1] ELSE rSum
    /\ rErrors' = IF outcome = "ok" THEN rErrors ELSE Append(rErrors, i)

\* A copy_image / move_image of image file i into the folder dest within
\* its try block: lines 152-164, 221-230, 243-255, 265-274 and 279-289
FileOperation(i, g, dest, outcome, no_gps) ==
    /\ rPhotos' = [rPhotos EXCEPT ![i] = [gps |-> g.gps, at |-> g.at, dest |-> dest, op |-> IF rArgs.move THEN "move" ELSE "copy", result |-> outcome]]
    /\ rSum' = IF outcome = "ok" THEN [rSum EXCEPT !.sorted = @ + 1, !.skipped_no_gps = @ + no_gps] ELSE rSum
    /\ rErrors' = IF outcome = "ok" THEN rErrors ELSE Append(rErrors, i)

\* lines 148-164: one image file without GPS, auto mode
CopyNoGps ==
    /\ rPc = "nogps"
    /\ \E outcome \in FileOutcomes : FileOperation(rNoGps[rI], rPhotos[rNoGps[rI]], Skipped, outcome, 1)
    /\ Advance(rI = Len(rNoGps), AfterNoGps(rClusters))
    /\ UNCHANGED <<rNoGps, rClusters, textVars, matchVars, clusterVars, geoVars, otherVars>>

\* A lookup at the cluster key instead of the first photo's coordinate
LookupArgsAtKey(cluster) ==
    [lat |-> cluster.key[1], lon |-> cluster.key[2], has_cache |-> TRUE, use_network |-> TRUE, single_word_english |-> rArgs.single_word_english, cache_precision |-> <<cluster_precision_from_radius_km(rArgs.cluster_radius_km)>>]

\* lines 176-185: the arguments of get_place_name for a cluster
LookupArgs(cluster) ==
    [lat |-> rPhotos[cluster.paths[1]].at[1], lon |-> rPhotos[cluster.paths[1]].at[2], has_cache |-> TRUE, use_network |-> TRUE, single_word_english |-> rArgs.single_word_english, cache_precision |-> <<cluster_precision_from_radius_km(rArgs.cluster_radius_km)>>]

\* lines 189-197: "Unknown" gives way to the name made of the cluster key
FolderOf(folder_name, key) ==
    IF rArgs.single_word_english /\ folder_name = Unknown
    THEN rounded_coords_folder_name(key[1], key[2], rArgs.single_word_english)
    ELSE folder_name

\* lines 200-201
Resolved(folder_name, looked_up) ==
    /\ rClusters' = [rClusters EXCEPT ![rI].folder = sanitize_folder_name(folder_name), ![rI].looked_up = looked_up]
    /\ Advance(rI = Len(rClusters), "copy")

\* An exception raised at line 178 leaves run; main, lines 411-419, returns 1
Escaped(exc) ==
    /\ rExc' = exc
    /\ rPc' = "raised"
    /\ rExit' = 1
    /\ UNCHANGED <<rArgs, rI, rClusters, rOutputCreated>>

\* lines 171-201: the folder name of one cluster
ResolveCluster ==
    /\ rPc = "resolve"
    /\ IF rArgs.geocode /\ rArgs.has_cache_path
       THEN \E resp \in RateResponses, args \in {LookupArgs(rClusters[rI])} :
                /\ GetPlaceName(args, resp, 0, 0)
                /\ IF gOut'.exc # ""
                   THEN Escaped(gOut'.exc)
                   ELSE Resolved(FolderOf(gOut'.ret, rClusters[rI].key), <<args.lat, args.lon>>)
       ELSE /\ Resolved(rounded_coords_folder_name(rClusters[rI].key[1], rClusters[rI].key[2], rArgs.single_word_english), <<>>)
            /\ UNCHANGED <<textVars, matchVars, clusterVars, geoVars, otherVars>>
    /\ UNCHANGED <<rPhotos, rNoGps, rSum, rErrors>>

\* lines 217-220: the image files in the order of the last loop, each with
\* the folder of its cluster
RECURSIVE CopyOrder(_)
CopyOrder(clusters) ==
    IF clusters = <<>> THEN <<>>
    ELSE [k \in 1..Len(Head(clusters).paths) |-> [photo |-> Head(clusters).paths[k], folder |-> Head(clusters).folder]] \o CopyOrder(Tail(clusters))

\* lines 217-230: one image file of a cluster
CopyClustered ==
    /\ rPc = "copy"
    /\ \E outcome \in FileOutcomes, next \in {CopyOrder(rClusters)[rI]} :
           FileOperation(next.photo, rPhotos[next.photo], next.folder, outcome, 0)
    /\ Advance(rI = Len(CopyOrder(rClusters)), "returned")
    /\ UNCHANGED <<rNoGps, rClusters, textVars, matchVars, clusterVars, geoVars, otherVars>>

\* lines 237-240 and 288-289: get_gps_from_image raised
GpsFailed(i, g) ==
    /\ rPhotos' = [rPhotos EXCEPT ![i].gps = g.gps]
    /\ rErrors' = Append(rErrors, i)
    /\ rSum' = rSum

\* A photo left in place that no counter records
LeftInPlaceUncounted(i, g) ==
    /\ rPhotos' = [rPhotos EXCEPT ![i].gps = g.gps, ![i].at = g.at]
    /\ rSum' = rSum
    /\ rErrors' = rErrors

\* lines 261-264: no copy, no move
LeftInPlace(i, g) ==
    /\ rPhotos' = [rPhotos EXCEPT ![i].gps = g.gps, ![i].at = g.at]
    /\ rSum' = [rSum EXCEPT !.skipped_left_in_place = @ + 1]
    /\ rErrors' = rErrors

\* lines 276-279
MatchedFolder(folder_name) ==
    IF rArgs.single_word_english THEN to_single_word_english(folder_name) ELSE sanitize_folder_name(folder_name)

\* A routing that ignores uncategorized_behavior
RoutedToFolder(i, g, folder_name, outcome) ==
    IF folder_name = None
    THEN FileOperation(i, g, sanitize_folder_name(uncategorized_folder_name), outcome, 0)
    ELSE FileOperation(i, g, MatchedFolder(folder_name), outcome, 0)

\* lines 257-286, folder_name being what match_location gave
Routed(i, g, folder_name, outcome) ==
    IF folder_name = None
    THEN IF uncategorized_behavior = "leave_in_place"
         THEN LeftInPlace(i, g)
         ELSE FileOperation(i, g, sanitize_folder_name(uncategorized_folder_name), outcome, 0)
    ELSE FileOperation(i, g, MatchedFolder(folder_name), outcome, 0)

\* line 258: the call of match_location is recorded as the last one made
MatchCalled(lat, lon, folder_name) ==
    /\ mLat' = lat /\ mLon' = lon /\ mDone' = TRUE /\ mResult' = folder_name

\* lines 237-289: one image file, config mode
ConfigPhoto ==
    /\ rPc = "config"
    /\ \E g \in GpsOutcomes(GridCoords), outcome \in FileOutcomes :
           IF g.gps = "error"
           THEN GpsFailed(rI, g) /\ UNCHANGED <<mLat, mLon, mDone, mResult>>
           ELSE IF g.gps = "none"
           THEN /\ FileOperation(rI, g, Skipped, outcome, 1)
                /\ UNCHANGED <<mLat, mLon, mDone, mResult>>
           ELSE /\ Routed(rI, g, match_location(g.at[1], g.at[2], locations), outcome)
                /\ MatchCalled(g.at[1], g.at[2], match_location(g.at[1], g.at[2], locations))
    /\ Advance(rI = rArgs.total, "returned")
    /\ UNCHANGED <<rNoGps, rClusters, locations, configVars, textVars, clusterVars, geoVars, otherVars>>

\* A residual that is not clamped
SkippedOtherUnclamped(n) == n

\* lines 291-314: the summary run returns
SkippedOther(n) == IF n < 0 THEN 0 ELSE n
Summary ==
    [total |-> rArgs.total, sorted |-> rSum.sorted, skipped_no_gps |-> rSum.skipped_no_gps, skipped_no_match_left |-> rSum.skipped_left_in_place, skipped_other |-> SkippedOther(rArgs.total - rSum.sorted - rSum.skipped_no_gps - rSum.skipped_left_in_place - Len(rErrors)), errors |-> rErrors]

RunNext == StartRun \/ ReadGps \/ CopyNoGps \/ ResolveCluster \/ CopyClustered \/ ConfigPhoto

SpecRun == RunInit /\ [][RunNext]_vars

\* run in either mode with every combination of the settings that belong to
\* the other mode: the handling of unmatched photos in auto mode, geocoding
\* with a cache file in config mode.  Photos are copied, at the default
\* radius.
ModesInit ==
    /\ rArgs \in { a \in RunArgs : a.total < MaxPhotos /\ ~a.move /\ a.cluster_radius_km = 10 }
    /\ locations \in RunLocations
    /\ uncategorized_behavior \in {"folder", "leave_in_place"}
    /\ uncategorized_folder_name \in {Uncategorized, Misc}
    /\ cacheFile \in RunCaches
    /\ cacheFile.state = "dict" => rArgs.has_cache_path
    /\ rawConfig = NoConfigFile
    /\ loadStatus = "default"
    /\ match_radius_km = DefaultRadius
    /\ mLat = 0 /\ mLon = 0 /\ mDone = FALSE /\ mResult = None
    /\ lastRequestTime = 0
    /\ now = 0
    /\ NoHistory
    /\ TextIdle
    /\ ClusterIdle
    /\ FileIdle
    /\ ThreadsIdle
    /\ rPc = "main"
    /\ rI = 1
    /\ rPhotos = <<>>
    /\ rNoGps = <<>>
    /\ rClusters = <<>>
    /\ rSum = [sorted |-> 0, skipped_no_gps |-> 0, skipped_left_in_place |-> 0]
    /\ rErrors = <<>>
    /\ rOutputCreated = FALSE
    /\ rExc = ""
    /\ rExit = -1

SpecModes == ModesInit /\ [][RunNext]_vars

----------------------------------------------------------------------------
(* Claims about match_location (specification SpecMatch).                   *)

\* The declared positions of the Bounds locations that contain the
\* coordinate, edges included.
BoundsHits ==
    {i \in DOMAIN locations :
        /\ locations[i].kind = "bounds"
        /\ mLat \in locations[i].min_lat..locations[i].max_lat
        /\ mLon \in locations[i].min_lon..locations[i].max_lon}

DistanceTo(i) ==
    haversine_km(mLat, mLon, locations[i].lat, locations[i].lon)

\* The declared positions of the Point locations whose own radius reaches
\* the coordinate.
PointHits ==
    {i \in DOMAIN locations :
        locations[i].kind = "point"
        /\ DistanceTo(i) <= locations[i].radius_km}

Earliest(S) == CHOOSE i \in S : \A j \in S : i <= j

\* C1: whenever at least one Bounds location contains the coordinate, edges
\* included, match_location returns the name of the earliest-declared such
\* Bounds, whatever Point locations match and wherever they are declared.
C1_BoundsFirst ==
    (mDone /\ BoundsHits # {})
        => mResult = locations[Earliest(BoundsHits)].name

\* A Bounds that holds the coordinate on its edges wins over a Point declared
\* before it at distance 0 and over a Bounds declared after it.
C1_Witness ==
    /\ mDone
    /\ Len(locations) = 3
    /\ BoundsHits = {2, 3}
    /\ PointHits = {1} /\ DistanceTo(1) = 0
    /\ mLat = locations[2].max_lat /\ mLon = locations[2].min_lon
    /\ mResult = LocName(2)

\* The matching Points at the smallest distance.
NearestHits ==
    {i \in PointHits : \A j \in PointHits : DistanceTo(i) <= DistanceTo(j)}

\* C2: when no Bounds contains the coordinate and Point locations are within
\* their own radius, match_location returns the name of the Point at the
\* smallest distance, and of the first declared among those at that distance.
C2_NearestPoint ==
    (mDone /\ BoundsHits = {} /\ PointHits # {})
        => mResult = locations[Earliest(NearestHits)].name

\* Three Points match: the nearest is declared last, and the first two are
\* at exactly the same greater distance.
C2_WitnessNearest ==
    /\ mDone
    /\ BoundsHits = {}
    /\ PointHits = {1, 2, 3}
    /\ DistanceTo(1) = DistanceTo(2) /\ DistanceTo(3) < DistanceTo(1)
    /\ mResult = LocName(3)

\* Two Points match at exactly the same distance and no other is nearer.
C2_Witness ==
    /\ mDone
    /\ BoundsHits = {}
    /\ NearestHits = {2, 3}
    /\ DistanceTo(2) > 0
    /\ locations[1].kind = "point" /\ 1 \notin PointHits
    /\ mResult = LocName(2)

\* C3: a Point matches iff the distance is at most its own radius; when no
\* Bounds contains the coordinate and no Point is within its radius, the empty
\* configuration included, match_location returns None.
C3_RadiusInclusive ==
    (mDone /\ BoundsHits = {})
        => /\ (mResult = None) <=>
                  \A i \in DOMAIN locations :
                      locations[i].kind = "point"
                          => DistanceTo(i) > locations[i].radius_km
           /\ mResult # None =>
                  \E i \in DOMAIN locations :
                      /\ locations[i].kind = "point"
                      /\ DistanceTo(i) <= locations[i].radius_km
                      /\ mResult = locations[i].name

\* A Point at a distance exactly equal to its radius has matched, beside a
\* Point 17 m beyond its radius.
C3_Witness ==
    /\ mDone
    /\ Len(locations) = 2
    /\ locations[1].kind = "point" /\ locations[2].kind = "point"
    /\ DistanceTo(1) = locations[1].radius_km + 17
    /\ DistanceTo(2) = locations[2].radius_km
    /\ mResult = LocName(2)

\* With no location at all, and with none that matches, the result is None.
C3_WitnessNone ==
    /\ mDone
    /\ locations # <<>>
    /\ mResult = None

----------------------------------------------------------------------------
(* Claims about the clusterer (specification SpecCluster).                  *)

\* Two cluster keys are the same dictionary key.
SameCluster(k1, k2) == FloatEq(k1[1], k2[1]) /\ FloatEq(k1[2], k2[2])

C7_WitnessShared ==
    /\ cDone
    /\ cRadius = 50
    /\ cA # cB
    /\ SameCluster(cKeyA, cKeyB)

----------------------------------------------------------------------------
(* Claims about the name normalizers (specification SpecText).              *)

RECURSIVE SortedSeq(_)
SortedSeq(S) ==
    IF S = {} THEN <<>>
    ELSE LET m == CHOOSE x \in S : \A y \in S : x <= y
         IN  <<m>> \o SortedSeq(S \ {m})

\* The tokens of a text: the maximal runs of word characters of its
\* transliteration, in order of appearance.
TokensOf(text) ==
    LET t == _unidecode(text)
        starts == {i \in DOMAIN t :
                      IsWordChar(t[i]) /\ (i = 1 \/ ~IsWordChar(t[i - 1]))}
        RunEnd(i) == CHOOSE j \in i..Len(t) :
                        /\ \A k \in i..j : IsWordChar(t[k])
                        /\ (j = Len(t) \/ ~IsWordChar(t[j + 1]))
        order == SortedSeq(starts)
    IN  [n \in DOMAIN order |-> SubSeq(t, order[n], RunEnd(order[n]))]

PurelyAlphabetic(tok) == \A i \in DOMAIN tok : IsAsciiLetter(tok[i])
PurelyNumeric(tok) == \A i \in DOMAIN tok : tok[i] \in Digits
KeptToken(tok) ==
    PurelyAlphabetic(tok) \/ (PurelyNumeric(tok) /\ Len(tok) > 3)

\* The kept tokens joined: alphabetic ones capitalized, numeric ones as is.
RECURSIVE JoinKept(_)
JoinKept(toks) ==
    IF toks = <<>> THEN <<>>
    ELSE (IF ~KeptToken(Head(toks)) THEN <<>>
          ELSE IF PurelyAlphabetic(Head(toks)) THEN Capitalize(Head(toks))
          ELSE Head(toks)) \o JoinKept(Tail(toks))

NoTokenKept(text) ==
    \A n \in DOMAIN TokensOf(text) : ~KeptToken(TokensOf(text)[n])
MostlyDigits(s) ==
    2 * Cardinality({i \in DOMAIN s : s[i] \in Digits}) > Len(s)
Blank(text) == \A i \in DOMAIN text : text[i] \in Whitespace

SingleWordDone == txtOp = "to_single_word_english"

\* C4: to_single_word_english("Taipei 101") returns "Taipei101": the numeric
\* token "101" is retained after the capitalized word.
C4_Taipei101 ==
    (SingleWordDone /\ txtIn = Taipei101In) => txtOut = Taipei101Out

\* What the code returns for "Taipei 101": the three-digit token is dropped.
C4_CodeDropsShortNumber ==
    (SingleWordDone /\ txtIn = Taipei101In)
        => txtOut = <<"T","a","i","p","e","i">>

SanitizeDone == txtOp = "sanitize_folder_name"

\* What is left of the input after the illegal characters are replaced by
\* spaces and the ends trimmed.
Trimmed(text) ==
    LET r == [i \in DOMAIN text |->
                 IF text[i] \in IllegalChars THEN " " ELSE text[i]]
        keep == {i \in DOMAIN r : r[i] \notin Whitespace}
    IN  IF keep = {} THEN <<>>
        ELSE SubSeq(r, CHOOSE i \in keep : \A j \in keep : i <= j,
                       CHOOSE i \in keep : \A j \in keep : i >= j)

WellFormedFolderName(s) ==
    /\ s # <<>>
    /\ \A i \in DOMAIN s : s[i] \notin IllegalChars
    /\ s[1] \notin Whitespace /\ s[Len(s)] \notin Whitespace
    /\ \A i \in 1..(Len(s) - 1) :
           ~(s[i] \in Whitespace /\ s[i + 1] \in Whitespace)

\* C6 as stated: the result of sanitize_folder_name is non-empty, free of
\* illegal characters, trimmed and without whitespace runs; it is "Unknown"
\* exactly when nothing is left of the input after replacing and trimming; and
\* sanitizing the result again returns it unchanged.
C6_UnknownExactlyWhenEmpty ==
    /\ SanitizeDone =>
           /\ WellFormedFolderName(txtOut)
           /\ (txtOut = Unknown) <=> (Trimmed(txtIn) = <<>>)
    /\ txtOp = "sanitize_again" => txtOut = txtIn

\* C6 amended: the same, except that the result is also "Unknown" when what is
\* left of the input is the text "Unknown" itself.
C6_Sanitize ==
    /\ SanitizeDone =>
           /\ WellFormedFolderName(txtOut)
           /\ (txtOut = Unknown) <=>
                  (Trimmed(txtIn) = <<>> \/ Trimmed(txtIn) = Unknown)
    /\ txtOp = "sanitize_again" => txtOut = txtIn

\* An input with illegal characters and whitespace runs has been sanitized
\* twice.
C6_Witness ==
    /\ txtOp = "sanitize_again"
    /\ txtIn = <<"a"," ","b"," ","c"," ","d"," ","e">>
    /\ txtOut = txtIn

----------------------------------------------------------------------------
(* Claims about get_place_name (specifications SpecGeo, SpecRoundTrip and   *)
(* SpecRate).                                                               *)

\* C8: get_place_name never fails: for every coordinate, every cache state
\* and every outcome of the lookup (a network error, a status other than 200,
\* a malformed body, any combination of address fields, among them a
\* response whose only usable field is one of neighbourhood, city, county,
\* municipality or state) the call raises no exception and returns a text
\* that is not empty.
C8_NeverFails ==
    gCalls > 0 =>
        /\ gOut.exc = ""
        /\ gOut.ret # None
        /\ gOut.ret # <<>>

\* C9: cache round trip: a call with the network and an initially empty
\* cache, then the same call (same coordinate, precision and single-word
\* flag) without the network: both calls return the same text.
C9_RoundTrip ==
    (gCalls = 2 /\ gOut.exc = "" /\ gPrev.out.exc = "") =>
        gOut.ret = gPrev.out.ret

\* C10: rate limit: the start times of two successive network requests are
\* at least NOMINATIM_DELAY_SEC apart, a request never starts before its
\* caller arrived, and the throttle timestamp is the start time of the last
\* request, whether that request succeeded or not.
C10_RateLimit ==
    /\ \A i \in 1..(Len(reqTimes) - 1) :
           reqTimes[i + 1] - reqTimes[i] >= NOMINATIM_DELAY_SEC
    /\ reqTimes # <<>> => lastRequestTime = reqTimes[Len(reqTimes)]
    /\ reqTimes = <<>> => lastRequestTime = 0
    /\ gOut.requested => reqTimes[Len(reqTimes)] >= gOut.arrived

\* Two requests, the first of which raised; the caller of the second arrived
\* before the interval had elapsed and the second got a network error.
C10_Witness ==
    /\ Len(reqTimes) >= 2
    /\ gPrev.out.requested /\ gPrev.out.exc = "ValueError"
    /\ gOut.requested /\ gResp.outcome = "URLError"
    /\ gOut.arrived - reqTimes[Len(reqTimes) - 1] < NOMINATIM_DELAY_SEC
    /\ reqTimes[Len(reqTimes)] - reqTimes[Len(reqTimes) - 1]
           = NOMINATIM_DELAY_SEC

\* The cache the last call loaded, its key, and the entry under it (None
\* when the key is absent)
CacheBefore == IF gFileBefore.state = "dict" THEN gFileBefore.data ELSE <<>>
KeyOfCall == _cache_key(gArgs.lat, gArgs.lon, gArgs.cache_precision)
EntryBefore == IF KeyOfCall \in DOMAIN CacheBefore THEN CacheBefore[KeyOfCall] ELSE None

\* An entry is rejected when it is empty or no text, looks like a coordinate
\* fallback, is a number of 3 to 6 digits, or, in single-word mode, has no
\* single-word form.
LooksLikeFallback(text) == StartsWith(text, <<"L","a","t">>) /\ Contains(text, <<"L","o","n">>)
LooksLikePostalCode(text) == IsDigit(text) /\ Len(text) >= 3 /\ Len(text) <= 6
EntryRejected(entry) ==
    \/ entry = <<>>
    \/ entry = NonText
    \/ /\ entry # <<>> /\ entry # NonText
       /\ \/ LooksLikeFallback(Strip(entry))
          \/ LooksLikePostalCode(Strip(entry))
          \/ gArgs.single_word_english /\ to_single_word_english(entry) = Unknown
NoUsableEntry == ~gArgs.has_cache \/ EntryBefore = None \/ EntryRejected(EntryBefore)

\* The coordinate fallbacks of the two coordinates, as Python writes them
ExpectedFallback ==
    IF gArgs.lat.neg
    THEN IF gArgs.single_word_english THEN <<"L","a","t","_","0","_","0","L","o","n","2","5","_","0","5">> ELSE <<"-","0",".","0","0","4",","," ","2","5",".","0","5">>
    ELSE IF gArgs.single_word_english THEN <<"L","a","t","2","5","_","0","3","L","o","n","1","2","1","_","5","6">> ELSE <<"2","5",".","0","3","4",","," ","1","2","1",".","5","6","4">>

\* C19: with the network disabled and no usable cache entry (no cache, key
\* absent, or entry rejected) get_place_name returns the coordinate fallback,
\* "<lat to 3 decimals>, <lon to 3 decimals>" or, in single-word mode,
\* "Lat<lat to 2>Lon<lon to 2>" with "." and "-" replaced by "_"; no request
\* is made and the throttle timestamp is unchanged.
C19_OfflineFallback ==
    (gCalls = 1 /\ ~gArgs.use_network /\ NoUsableEntry) =>
        /\ gOut.exc = ""
        /\ gOut.ret = ExpectedFallback
        /\ ~gOut.requested
        /\ gResp = NotAsked
        /\ reqTimes = <<>>
        /\ lastRequestTime = 0

\* An entry that has no single-word form was found and rejected, and the
\* fallback of a negative latitude returned.
C19_Witness ==
    /\ gCalls = 1 /\ ~gArgs.use_network /\ gArgs.has_cache
    /\ gArgs.single_word_english
    /\ EntryBefore = NameA1
    /\ gOut.ret = <<"L","a","t","2","5","_","0","3","L","o","n","1","2","1","_","5","6">>
    /\ KeyOfCall \notin DOMAIN _load_cache(cacheFile)

\* The key was absent and the fallback of a negative latitude was returned.
C19_WitnessNegative ==
    /\ gCalls = 1 /\ ~gArgs.use_network /\ gArgs.has_cache
    /\ gArgs.single_word_english
    /\ EntryBefore = None
    /\ gOut.ret = <<"L","a","t","_","0","_","0","L","o","n","2","5","_","0","5">>

\* The name the lookup of the last call returned (None when it raised or
\* returned none)
NameLookedUp == IF gOut.requested /\ gOut.exc = "" THEN _fetch_nominatim(gResp)[1] ELSE None

\* Neither normalizer gives a single word for the text.
NoSingleWord(text) == to_single_word_english(text) = Unknown /\ _name_to_safe_folder(text) = Unknown

\* The village/suburb retry has nothing to offer: it is not made, or each of
\* the two fields is absent, unusable or without a single-word form.
RetryFails ==
    \/ ~_has_chinese_characters(NameLookedUp)
    \/ ~AddressTruthy(gResp.address)
    \/ \A k \in {"village", "suburb"} :
           \/ ~HasField(gResp.address, k)
           \/ ~IsUsable(Strip(gResp.address.d[k]))
           \/ NoSingleWord(Strip(gResp.address.d[k]))

\* The lookup returned a name and, in single-word mode, every attempt to
\* normalize it failed.
EveryAttemptFailed ==
    /\ gCalls = 1 /\ gArgs.single_word_english
    /\ gOut.requested /\ gOut.exc = ""
    /\ Truthy(NameLookedUp)
    /\ NoSingleWord(NameLookedUp)
    /\ RetryFails

\* C20 as stated: when the lookup returned a name and every normalization
\* attempt failed in single-word mode, get_place_name returns the coordinate
\* fallback and the raw name is written to the cache under the key.
C20_RawNameCached ==
    (EveryAttemptFailed /\ gArgs.has_cache) =>
        /\ gOut.ret = ExpectedFallback
        /\ DictGet(_load_cache(cacheFile), KeyOfCall) = NameLookedUp

\* C20 amended: in that case get_place_name returns the coordinate fallback
\* and writes nothing to the cache: the file is as the cache lookup left it,
\* with no entry under the key or the empty or non-text entry that was there.
C20_FallbackNotCached ==
    EveryAttemptFailed =>
        /\ gOut.ret = ExpectedFallback
        /\ gArgs.has_cache =>
               DictGet(_load_cache(cacheFile), KeyOfCall) \in {None, <<>>, NonText}
        /\ cacheFile = IF gArgs.has_cache /\ EntryBefore \notin {None, <<>>, NonText}
                       THEN Evict(gFileBefore, KeyOfCall)
                       ELSE gFileBefore

\* The lookup returned the ideograph, which has no single-word form without
\* unidecode, with a suburb that has none either; the cache stays empty.
C20_Witness ==
    /\ EveryAttemptFailed /\ gArgs.has_cache
    /\ NameLookedUp = NameJiu
    /\ HasField(gResp.address, "suburb")
    /\ gOut.ret = ExpectedFallback
    /\ _load_cache(cacheFile) = EmptyDict

----------------------------------------------------------------------------
(* Claims about load_config.                                                *)

\* The items of "locations" that are dicts: when load_config succeeds, the
\* i-th of them is where the i-th loaded location came from.
ItemIsDict(item) == item.kind = "dict"
RawLocations ==
    IF "locations" \in DOMAIN rawConfig.data THEN SelectSeq(rawConfig.data["locations"], ItemIsDict) ELSE <<>>

LacksRadius(i) == locations[i].kind = "point" /\ "radius_km" \notin DOMAIN RawLocations[i].d

\* C17: a Point location loaded without an explicit radius_km has the
\* configuration's match_radius_km as its radius.
C17_DefaultRadius ==
    loadStatus = "ok" => \A i \in 1..Len(locations) : LacksRadius(i) => locations[i].radius_km = match_radius_km

----------------------------------------------------------------------------
(* Claims about copy_image and move_image.                                  *)

FileCallReturned == fCall.op # "none" /\ fCall.exc = ""

\* The file name the last call asked for, and whether a name was taken in
\* the destination directory when the call was made
WantedName == IF fCall.dest_filename # None THEN fCall.dest_filename ELSE fCall.name
TakenBefore(filename) == filename \in DOMAIN fCall.destBefore
WantedNumbered(n) == Numbered(Stem(WantedName), n, Suffix(WantedName))
SmallestFree(n) == ~TakenBefore(WantedNumbered(n)) /\ \A m \in 1..(n - 1) : TakenBefore(WantedNumbered(m))

\* "<stem> (n)<suffix>" for the smallest n >= 1 not taken, the plain file
\* name when it is free
ExpectedFileName ==
    IF ~TakenBefore(WantedName) THEN WantedName
    ELSE WantedNumbered(CHOOSE n \in 1..(Cardinality(DOMAIN fCall.destBefore) + 1) : SmallestFree(n))

KeptInDest(filename) == filename \in DOMAIN destDir.files /\ destDir.files[filename] = fCall.destBefore[filename]

AddsOneFile == Cardinality(DOMAIN destDir.files \ DOMAIN fCall.destBefore) = 1

\* The directory the source of the last call lies in, before and after it
SourceDirBefore == IF fCall.from = "src" THEN fCall.srcBefore ELSE fCall.destBefore
SourceDirAfter == IF fCall.from = "src" THEN srcDir.files ELSE destDir.files

SourceKept == fCall.name \in DOMAIN SourceDirAfter /\ SourceDirAfter[fCall.name] = SourceDirBefore[fCall.name]
SourceRemoved == fCall.name \notin DOMAIN SourceDirAfter
SourceFate == IF fCall.op = "copy" THEN SourceKept ELSE SourceRemoved

NewFileIsSource == destDir.files[fCall.ret] = SourceDirBefore[fCall.name]

\* The source of a move that lay in the destination directory itself
MovedWithinDest(filename) == fCall.op = "move" /\ fCall.from = "dest" /\ filename = fCall.name

\* C18 as stated: after a call every file that was in the directory before
\* it is still there with its content, the call added exactly one file, under
\* the plain name or "<stem> (n)<suffix>" for the smallest free n >= 1, and
\* copy leaves the source while move removes it.
C18_EveryFileKept ==
    FileCallReturned =>
        /\ \A filename \in DOMAIN fCall.destBefore : KeptInDest(filename)
        /\ AddsOneFile
        /\ fCall.ret = ExpectedFileName
        /\ SourceFate

\* C18, amended: the same, for every file of the directory other than the
\* source of a move that lay in the directory; the added file has the
\* content of the source.
C18_NoOverwrite ==
    FileCallReturned =>
        /\ \A filename \in DOMAIN fCall.destBefore : MovedWithinDest(filename) \/ KeptInDest(filename)
        /\ AddsOneFile
        /\ fCall.ret = ExpectedFileName
        /\ NewFileIsSource
        /\ SourceFate

\* A move that found the plain name and "(1)" taken and chose "(2)"
C18_Witness ==
    /\ FileCallReturned
    /\ fCall.op = "move"
    /\ fCall.ret = NameAj2
    /\ {NameAj, NameAj1} \subseteq DOMAIN fCall.destBefore

----------------------------------------------------------------------------
(* Claims about run and main (specification SpecRun).                       *)

AutoMode == Len(locations) = 0
PhotoIds == DOMAIN rPhotos
FileOperationOf(i) == IF rArgs.move THEN "move" ELSE "copy"
Invoked(i) == rPhotos[i].op # "none"
Succeeded(i) == rPhotos[i].result = "ok"
HasRaised(i) == rPhotos[i].gps = "error" \/ rPhotos[i].result = "OSError"
TimesIn(seq, x) == Cardinality({ k \in DOMAIN seq : seq[k] = x })

\* The image files whose pass through the loop that copies or moves them
\* is over
PastGps == IF AutoMode THEN rPc \in {"nogps", "resolve", "copy", "returned"} \/ (rPc = "raised" /\ rExc # "NotADirectoryError") ELSE rPc = "returned"
PastNoGps == IF AutoMode THEN rPc \in {"resolve", "copy", "returned"} \/ (rPc = "raised" /\ rExc # "NotADirectoryError") ELSE rPc = "returned"

\* C11: in both modes a photo without GPS is copied or moved into "Skipped",
\* and once that has returned it counts in skipped_no_gps and in the sorted
\* count (a copy or move that raises is recorded in errors instead, C12).
C11_NoGpsToSkipped ==
    /\ \A i \in PhotoIds : rPhotos[i].gps = "none" /\ (Invoked(i) \/ PastNoGps) =>
           /\ rPhotos[i].op = FileOperationOf(i)
           /\ rPhotos[i].dest = Skipped
    /\ rSum.skipped_no_gps = Cardinality({ i \in PhotoIds : rPhotos[i].gps = "none" /\ Succeeded(i) })
    /\ rSum.sorted = Cardinality({ i \in PhotoIds : Succeeded(i) })

\* A returned run, in auto mode, that moved a photo without GPS
C11_Witness ==
    /\ rPc = "returned"
    /\ AutoMode
    /\ \E i \in PhotoIds : rPhotos[i].gps = "none" /\ rPhotos[i].op = "move" /\ Succeeded(i)
    /\ \E i \in PhotoIds : rPhotos[i].gps = "coord" /\ Succeeded(i)

\* C12: an exception of GPS extraction or of the copy/move of a photo adds
\* exactly one pair for that photo to errors and no pair for any other; it
\* never leaves run, and a run that returns has been through every photo.
C12_ErrorsCaught ==
    /\ \A i \in PhotoIds : TimesIn(rErrors, i) = IF HasRaised(i) THEN 1 ELSE 0
    /\ rPc = "raised" => rExc = "NotADirectoryError" \/ (gCalls > 0 /\ rExc = gOut.exc)
    /\ rPc = "returned" => \A i \in PhotoIds :
           /\ rPhotos[i].gps # "unread"
           /\ rPhotos[i].gps = "none" => Invoked(i)
           /\ rPhotos[i].gps = "coord" /\ AutoMode => Invoked(i)

\* A returned run in which the first photo failed in GPS extraction, the
\* second in its copy, and the third was sorted
C12_Witness ==
    /\ rPc = "returned"
    /\ Len(rPhotos) = 3
    /\ rPhotos[1].gps = "error"
    /\ rPhotos[2].result = "OSError"
    /\ Succeeded(3)
    /\ rErrors = <<1, 2>>

\* C13: when the input path is a directory no exception leaves run.
C13_NoEscape == rArgs.input_is_dir => rExc = ""

\* C14: an input path that is no directory makes run raise
\* NotADirectoryError before anything is done (no output directory, no photo
\* read, copied or moved, no lookup, no request, the cache file as it was),
\* and main exits with 1.
C14_Precondition ==
    ~rArgs.input_is_dir /\ rPc # "main" =>
        /\ rPc = "raised"
        /\ rExc = "NotADirectoryError"
        /\ rExit = 1
        /\ ~rOutputCreated
        /\ rPhotos = <<>>
        /\ rErrors = <<>>
        /\ rSum.sorted = 0
        /\ gCalls = 0
        /\ reqTimes = <<>>
        /\ cacheFile \in RunCaches

C14_Witness == ~rArgs.input_is_dir /\ rArgs.total > 0 /\ cacheFile.state = "dict" /\ rExit = 1

\* The photos of config mode that have a coordinate no location matches
Unmatched(i) == ~AutoMode /\ rPhotos[i].gps = "coord" /\ match_location(rPhotos[i].at[1], rPhotos[i].at[2], locations) = None

\* C15: config mode, a photo matching no location.  With "leave_in_place" no
\* copy or move is invoked, skipped_no_match_left counts it and the sorted
\* count does not; otherwise it is copied or moved into
\* sanitize_folder_name(uncategorized_folder_name), the sorted count counts
\* it once that has returned, and skipped_no_match_left stays 0.
C15_Unmatched ==
    /\ \A i \in PhotoIds : Unmatched(i) =>
           IF uncategorized_behavior = "leave_in_place"
           THEN ~Invoked(i) /\ rPhotos[i].dest = None /\ ~Succeeded(i)
           ELSE /\ rPhotos[i].op = FileOperationOf(i)
                /\ rPhotos[i].dest = sanitize_folder_name(uncategorized_folder_name)
    /\ Summary.skipped_no_match_left = IF uncategorized_behavior = "leave_in_place" THEN Cardinality({ i \in PhotoIds : Unmatched(i) }) ELSE 0
    /\ Summary.sorted = Cardinality({ i \in PhotoIds : Succeeded(i) })

\* A returned run that left one unmatched photo in place and sorted another
C15_Witness ==
    /\ rPc = "returned"
    /\ uncategorized_behavior = "leave_in_place"
    /\ \E i \in PhotoIds : Unmatched(i)
    /\ \E i \in PhotoIds : ~Unmatched(i) /\ Succeeded(i)
    /\ Summary.skipped_no_match_left = 1

\* The photos with a coordinate, auto mode, and the key of each
Clustered(i) == AutoMode /\ rPhotos[i].gps = "coord"
KeyOf(i) == cluster_key(rPhotos[i].at[1], rPhotos[i].at[2], rArgs.cluster_radius_km)
LookedUp(k) == rClusters[k].looked_up # <<>>

\* C16: auto mode.  The clusters are the distinct cluster keys, each holding
\* the photos of its key in the order they were read; a cluster's name is
\* looked up at most once, at the coordinate of its first photo; every photo
\* of a cluster goes to the cluster's folder; there are no more lookups, and
\* no more requests, than distinct keys; photos with equal keys never go to
\* different folders.
C16_OneFolderPerCluster ==
    /\ \A k, l \in DOMAIN rClusters : SameKey(rClusters[k].key, rClusters[l].key) => k = l
    /\ \A i \in PhotoIds : Clustered(i) => \E k \in DOMAIN rClusters : SameKey(rClusters[k].key, KeyOf(i)) /\ TimesIn(rClusters[k].paths, i) = 1
    /\ \A k \in DOMAIN rClusters :
           /\ \A n \in DOMAIN rClusters[k].paths : rClusters[k].paths[1] <= rClusters[k].paths[n] /\ SameKey(KeyOf(rClusters[k].paths[n]), rClusters[k].key)
           /\ LookedUp(k) => rClusters[k].looked_up = rPhotos[rClusters[k].paths[1]].at
           /\ \A n \in DOMAIN rClusters[k].paths : Invoked(rClusters[k].paths[n]) => rPhotos[rClusters[k].paths[n]].dest = rClusters[k].folder /\ rClusters[k].folder # None
    /\ gCalls = Cardinality({ k \in DOMAIN rClusters : LookedUp(k) }) + (IF rPc = "raised" /\ rExc # "NotADirectoryError" THEN 1 ELSE 0)
    /\ gCalls <= Len(rClusters)
    /\ Len(reqTimes) <= gCalls
    /\ \A i, j \in PhotoIds : Clustered(i) /\ Clustered(j) /\ Invoked(i) /\ Invoked(j) /\ SameKey(KeyOf(i), KeyOf(j)) => rPhotos[i].dest = rPhotos[j].dest

\* A returned run with two photos at different coordinates in one cluster,
\* its name looked up at the first, and a second cluster
C16_Witness ==
    /\ rPc = "returned"
    /\ Len(rClusters) = 2
    /\ Len(rClusters[1].paths) = 2
    /\ rPhotos[rClusters[1].paths[1]].at # rPhotos[rClusters[1].paths[2]].at
    /\ LookedUp(1)
    /\ gCalls = 2
    /\ \A i \in PhotoIds : Succeeded(i)


----------------------------------------------------------------------------
(* Claims about what get_place_name writes to the cache and returns         *)
(* (specification SpecGeo).                                                 *)

\* The entry the last call left under its key (None when there is none)
Stored == DictGet(_load_cache(cacheFile), KeyOfCall)

\* The call asked the service and returned a name, not the coordinate
\* fallback.
LookupSucceeded ==
    /\ gCalls = 1 /\ gOut.requested /\ gOut.exc = ""
    /\ gOut.ret # ExpectedFallback

\* The form get_place_name returns for a raw name: in single-word mode
\* to_single_word_english, or the lenient _name_to_safe_folder when that
\* gives "Unknown"; sanitize_folder_name otherwise.
ReturnedForm(raw) ==
    IF gArgs.single_word_english
    THEN IF to_single_word_english(raw) # Unknown
         THEN to_single_word_english(raw)
         ELSE _name_to_safe_folder(raw)
    ELSE sanitize_folder_name(raw)

\* The stripped village and suburb fields of the response
RetryFields ==
    IF gResp.address.kind # "dict" THEN {}
    ELSE { Strip(gResp.address.d[k]) :
             k \in { f \in {"village", "suburb"} : HasField(gResp.address, f) } }

\* C21 as stated: on every successful lookup with a cache handle the value
\* stored under the key is the raw name the lookup chose, never a different
\* address field, and the returned text is the normalized (single-word mode)
\* or sanitized (normal mode) form of that stored name.
C21_LookupNameStored ==
    (LookupSucceeded /\ gArgs.has_cache) =>
        /\ Stored = NameLookedUp
        /\ gOut.ret = ReturnedForm(Stored)

\* C21 amended: the value stored under the key is the raw text the returned
\* text was made from: the name the lookup chose or, when that name has no
\* single-word form in single-word mode (or the lookup chose none), the
\* stripped village or suburb field the retry used; the returned text is the
\* normalized or sanitized form of the stored text.
C21_RawSourceStored ==
    (LookupSucceeded /\ gArgs.has_cache) =>
        /\ \/ Stored = NameLookedUp
           \/ /\ Stored \in RetryFields
              /\ \/ NameLookedUp = None
                 \/ gArgs.single_word_english /\ NoSingleWord(NameLookedUp)
        /\ Stored # None
        /\ gOut.ret = ReturnedForm(Stored)

\* The lookup chose the ideograph, which has no single-word form without
\* unidecode; the retry took the suburb, stored it and returned its form.
C21_Witness ==
    /\ LookupSucceeded /\ gArgs.has_cache /\ gArgs.single_word_english
    /\ NameLookedUp = NameJiu
    /\ Stored = NameAb
    /\ gOut.ret = NameAb

\* A landmark joined with its city is stored as the lookup returned it and
\* returned as one word.
C21_WitnessRaw ==
    /\ LookupSucceeded /\ gArgs.has_cache /\ gArgs.single_word_english
    /\ NameLookedUp = <<"A","b",","," ","A","1">>
    /\ Stored = NameLookedUp
    /\ gOut.ret = NameAb


\* An entry the validation on line 356 does not look at: empty, or no text
EntryUnreadable(entry) == entry = <<>> \/ entry = NonText

\* The form in which a cached text is returned (line 366)
CachedForm(entry) ==
    IF gArgs.single_word_english THEN to_single_word_english(entry)
    ELSE sanitize_folder_name(entry)

\* The last call found an entry under its key.
EntryFound == gCalls = 1 /\ gArgs.has_cache /\ EntryBefore # None

\* The entry was returned: no request, the cache file untouched
EntryReturned ==
    /\ gOut.exc = "" /\ ~gOut.requested
    /\ ~EntryUnreadable(EntryBefore)
    /\ gOut.ret = CachedForm(EntryBefore)
    /\ cacheFile = gFileBefore

\* The entry was evicted and the call went on: the file was rewritten
\* without it, and then either nothing is under the key or a successful
\* lookup stored its name there
EntryEvicted ==
    /\ gOut.requested = gArgs.use_network
    /\ \/ cacheFile = Evict(gFileBefore, KeyOfCall)
       \/ gOut.requested /\ LookupSucceeded
    /\ ~gArgs.use_network => gOut.ret = ExpectedFallback

\* The entry was neither returned nor evicted: the call went on with the
\* file as it was, and the entry is still there unless a successful lookup
\* stored its name over it
EntryLeftInPlace ==
    /\ gOut.requested = gArgs.use_network
    /\ \/ cacheFile = gFileBefore
       \/ gOut.requested /\ LookupSucceeded
    /\ ~gArgs.use_network => gOut.ret = ExpectedFallback

\* C22 as stated: an entry found under the key is evicted, and resolution
\* continues, when it looks like a coordinate fallback or a short numeric
\* code or, in single-word mode, normalizes to "Unknown"; every other entry
\* is returned without a request and without modifying the cache; so an
\* entry found under the key is always either returned or evicted.
C22_ReturnedOrEvicted ==
    EntryFound =>
        IF EntryRejected(EntryBefore) THEN EntryEvicted ELSE EntryReturned

\* C22 amended: an entry that is a non-empty text is evicted, and resolution
\* continues, when it looks like a coordinate fallback (starts with "Lat"
\* and contains "Lon") or is a number of 3 to 6 digits or, in single-word
\* mode, normalizes to "Unknown", and is returned without a request and
\* without modifying the cache otherwise; an entry that is empty or no text
\* is neither returned nor evicted: it is left in place and resolution
\* continues.
C22_CacheValidation ==
    EntryFound =>
        IF EntryUnreadable(EntryBefore) THEN EntryLeftInPlace
        ELSE IF EntryRejected(EntryBefore) THEN EntryEvicted
        ELSE EntryReturned

\* An entry that is no text was found with the network disabled: the
\* fallback came back and the entry is still in the file.
C22_Witness ==
    /\ EntryFound /\ ~gArgs.use_network
    /\ EntryBefore = NonText
    /\ gOut.ret = ExpectedFallback
    /\ Stored = NonText

\* A three-digit entry was evicted with the network disabled.
C22_WitnessEvicted ==
    /\ EntryFound /\ ~gArgs.use_network /\ ~gArgs.single_word_english
    /\ EntryBefore = Name123
    /\ gOut.ret = ExpectedFallback
    /\ Stored = None

\* An entry was returned as one word although the network was enabled.
C22_WitnessReturned ==
    /\ EntryFound /\ gArgs.use_network /\ gArgs.single_word_english
    /\ EntryBefore = NameAb
    /\ gOut.ret = NameAb /\ ~gOut.requested
    /\ Stored = NameAb


\* The name _fetch_nominatim chose for the response of the last call (None
\* when the service was not asked or no name was chosen)
NameChosen == IF gOut.requested THEN _fetch_nominatim(gResp)[1] ELSE None

\* C23: name selection never yields a likely postal code: the name chosen by
\* _fetch_nominatim at any tier (landmark, suburb, village, town,
\* city_district, region, display name) is never a number of 5 digits or
\* fewer; such a candidate is skipped and the next tier is tried.
C23_NoPostalCode ==
    (gCalls = 1 /\ gOut.requested) =>
        ~(Truthy(NameChosen) /\ IsShortNumber(NameChosen))


----------------------------------------------------------------------------
(* Claim about get_place_name called from two threads (specification        *)
(* SpecThreads).                                                            *)

\* The request of thread t started less than NOMINATIM_DELAY_SEC after the
\* request before it.
TooClose(t) ==
    /\ threads[t].stamp > 1
    /\ reqTimes[threads[t].stamp] - reqTimes[threads[t].stamp - 1]
           < NOMINATIM_DELAY_SEC

\* Thread t read the timestamp before the request before its own was stamped.
ReadBeforeStamp(t) == threads[t].seen < threads[t].stamp - 1

\* C24: the throttle is one process-wide timestamp without synchronization.
\* Two requests start less than NOMINATIM_DELAY_SEC apart only when the
\* thread making the second read the timestamp before the first was stamped:
\* calls that do not overlap between the read and the write keep the
\* spacing, calls that do may break it.
C24_CloseOnlyWhenOverlapping ==
    \A t \in Threads : TooClose(t) => ReadBeforeStamp(t)

\* Both threads read the timestamp before either wrote it, and their two
\* requests started at the same time.
C24_Witness ==
    /\ Len(reqTimes) = 2
    /\ reqTimes[2] - reqTimes[1] < NOMINATIM_DELAY_SEC
    /\ \A t \in Threads : threads[t].seen = 0 /\ threads[t].stamp \in {1, 2}
    /\ threads["A"].stamp # threads["B"].stamp

\* A thread read the timestamp after the request before its own was stamped,
\* slept, and started its request NOMINATIM_DELAY_SEC after it.
C24_WitnessSerial ==
    \E t \in Threads :
        /\ threads[t].stamp = 2 /\ threads[t].seen = 1
        /\ reqTimes[2] - reqTimes[1] = NOMINATIM_DELAY_SEC


----------------------------------------------------------------------------
(* Claim about the two modes of run (specification SpecModes).              *)

ConfigMode == Len(locations) > 0

\* The folder a photo that was copied belongs in, in auto mode: "Skipped"
\* without GPS, the folder of its cluster otherwise
RECURSIVE ClusterFolderOf(_, _)
ClusterFolderOf(clusters, i) ==
    IF clusters = <<>> THEN None
    ELSE IF \E k \in DOMAIN Head(clusters).paths : Head(clusters).paths[k] = i
    THEN Head(clusters).folder
    ELSE ClusterFolderOf(Tail(clusters), i)
AutoFolderOf(i) == IF rPhotos[i].gps = "none" THEN Skipped ELSE ClusterFolderOf(rClusters, i)

\* Auto mode: match_location has not been called, no photo was left in
\* place, and every photo copied went to "Skipped" or to the folder of its
\* cluster, whatever the settings for unmatched photos.
AutoModeOnly ==
    /\ ~mDone
    /\ rSum.skipped_left_in_place = 0
    /\ \A i \in PhotoIds : Invoked(i) => rPhotos[i].dest = AutoFolderOf(i)

\* Config mode: no cluster key was computed, get_place_name was not called,
\* no request was made and the throttle timestamp is untouched.
ConfigModeOnly ==
    /\ rClusters = <<>> /\ rNoGps = <<>>
    /\ ~cDone
    /\ gCalls = 0
    /\ reqTimes = <<>>
    /\ lastRequestTime = 0

\* Config mode never writes the cache file.
CacheFileKept == ConfigMode => cacheFile' = cacheFile

\* C25: the mode of run is decided once from the configuration and is
\* exclusive: with zero locations match_location is never invoked and the
\* settings for unmatched photos have no effect; with one or more locations
\* no cluster key is computed, get_place_name is never invoked, no request
\* is made and the cache file is never read or written, even with
\* geocode=True and a cache path.
C25_ModesExclusive ==
    /\ [](AutoMode => AutoModeOnly)
    /\ [](ConfigMode => ConfigModeOnly)
    /\ [][CacheFileKept]_vars

\* A run in config mode with geocoding on and a cache file holding an entry
\* returned, having matched a photo and copied it, without a lookup.
C25_Witness ==
    /\ ConfigMode /\ rPc = "returned"
    /\ rArgs.geocode /\ rArgs.has_cache_path /\ cacheFile.state = "dict"
    /\ mDone /\ mResult # None
    /\ \E i \in PhotoIds : Succeeded(i) /\ rPhotos[i].gps = "coord"
    /\ gCalls = 0

\* A run in auto mode set to leave unmatched photos in place returned,
\* having looked a cluster up and copied its photo.
C25_WitnessAuto ==
    /\ AutoMode /\ rPc = "returned"
    /\ uncategorized_behavior = "leave_in_place"
    /\ uncategorized_folder_name = Misc
    /\ gCalls > 0
    /\ \E i \in PhotoIds : Succeeded(i) /\ rPhotos[i].gps = "coord"


----------------------------------------------------------------------------
(* Claims about the requests and the cache writes of get_place_name         *)
(* (specification SpecGeo).                                                 *)

\* The requests the one call made and the throttle timestamp after it:
\* nothing and the initial 0 when the network is disabled or the cache gave
\* a usable entry, one request and its start time otherwise.
OneRequestPerMiss ==
    /\ Len(reqTimes) <= 1
    /\ IF ~gArgs.use_network \/ ~NoUsableEntry
       THEN /\ ~gOut.requested
            /\ gResp = NotAsked
            /\ reqTimes = <<>>
            /\ lastRequestTime = 0
       ELSE /\ gOut.requested
            /\ Len(reqTimes) = 1
            /\ lastRequestTime = reqTimes[1]

\* C26: one request per cache miss: a call of get_place_name makes at most
\* one request, and none when a usable cache entry is returned or the
\* network is disabled; in those cases the throttle timestamp is unchanged.
C26_OneRequestPerMiss == gCalls = 1 => OneRequestPerMiss

\* A call with the network enabled returned the cached name: no request,
\* and the timestamp is still the initial one.
C26_Witness ==
    /\ gCalls = 1
    /\ gArgs.use_network /\ gArgs.has_cache /\ ~gArgs.single_word_english
    /\ EntryBefore = NameA1
    /\ ~gOut.requested /\ gOut.ret = NameA1
    /\ reqTimes = <<>> /\ lastRequestTime = 0


\* The cache after the last call
CacheAfter == _load_cache(cacheFile)

\* C27: a call of get_place_name changes at most the cache entry under its
\* own key: every entry that was under another key before the call is there
\* with the same value after it, and no other key is added; without a cache
\* handle the file is untouched.  For a well-formed cache file and a single
\* caller.
C27_OtherEntriesKept ==
    gCalls = 1 =>
        /\ \A k \in DOMAIN CacheBefore \ {KeyOfCall} :
               k \in DOMAIN CacheAfter /\ CacheAfter[k] = CacheBefore[k]
        /\ DOMAIN CacheAfter \subseteq DOMAIN CacheBefore \cup {KeyOfCall}
        /\ ~gArgs.has_cache => cacheFile = gFileBefore

\* The three-digit entry under the key of the call was evicted, a lookup
\* stored a name there, and the entry under the other key is as it was.
C27_Witness ==
    /\ gCalls = 1 /\ gArgs.has_cache /\ gOut.requested
    /\ Cardinality(DOMAIN CacheBefore) = 2
    /\ EntryBefore = Name123
    /\ Stored = NameA1
    /\ DOMAIN CacheAfter = DOMAIN CacheBefore

\* The entry under the key was evicted and nothing stored: the cache has
\* shrunk to the entry under the other key.
C27_WitnessEvicted ==
    /\ gCalls = 1 /\ gArgs.has_cache
    /\ Cardinality(DOMAIN CacheBefore) = 2
    /\ EntryBefore = Name123
    /\ DOMAIN CacheAfter = DOMAIN CacheBefore \ {KeyOfCall}
    /\ Cardinality(DOMAIN CacheAfter) = 1


----------------------------------------------------------------------------
(* Claims about the summary run returns (specification SpecRun).            *)

\* What became of image file i: it was copied or moved, it was left in
\* place (config mode, no location matched, no file operation), or it is in
\* errors
WasSorted(i) == Succeeded(i)
WasLeftInPlace(i) == rPhotos[i].gps = "coord" /\ ~Invoked(i)
WasError(i) == TimesIn(rErrors, i) > 0
Fates(i) == { f \in {"sorted", "left", "error"} : \/ f = "sorted" /\ WasSorted(i)
                                                  \/ f = "left" /\ WasLeftInPlace(i)
                                                  \/ f = "error" /\ WasError(i) }

\* C28: every photo is accounted for exactly once: in every summary run
\* returns, total = sorted + skipped_no_match_left + len(errors), each image
\* file being exactly one of copied or moved, left in place, or an error.
C28_AccountedOnce ==
    rPc = "returned" =>
        /\ Summary.total = Summary.sorted + Summary.skipped_no_match_left + Len(Summary.errors)
        /\ Summary.total = Cardinality(PhotoIds)
        /\ \A i \in PhotoIds : Cardinality(Fates(i)) = 1
        /\ Summary.sorted = Cardinality({ i \in PhotoIds : WasSorted(i) })
        /\ Summary.skipped_no_match_left = Cardinality({ i \in PhotoIds : WasLeftInPlace(i) })
        /\ Len(Summary.errors) = Cardinality({ i \in PhotoIds : WasError(i) })

\* A summary of three photos: one moved, one left in place, one an error.
C28_Witness ==
    /\ rPc = "returned" /\ rArgs.move
    /\ Summary.total = 3
    /\ Summary.sorted = 1
    /\ Summary.skipped_no_match_left = 1
    /\ Len(Summary.errors) = 1

\* A summary in auto mode: a photo without GPS in "Skipped", one in the
\* folder of its cluster, and one whose copy failed.
C28_WitnessAuto ==
    /\ rPc = "returned" /\ AutoMode
    /\ Summary.total = 3 /\ Summary.sorted = 2 /\ Summary.skipped_no_gps = 1
    /\ \E i \in PhotoIds : rPhotos[i].gps = "coord" /\ rPhotos[i].result = "OSError"


\* line 291: the residual before it is clamped
Residual == rArgs.total - rSum.sorted - rSum.skipped_no_gps - rSum.skipped_left_in_place - Len(rErrors)

\* C29: skipped_other is max(0, total - sorted - skipped_no_gps -
\* skipped_no_match_left - len(errors)); a photo routed to "Skipped" counts
\* in sorted and in skipped_no_gps, so the residual is minus skipped_no_gps,
\* never positive, and skipped_other is 0 in every summary run returns.
C29_SkippedOtherZero ==
    rPc = "returned" =>
        /\ Residual = 0 - Summary.skipped_no_gps
        /\ Residual <= 0
        /\ Summary.skipped_other = 0

\* A summary with two photos in "Skipped": the residual is -2 and
\* skipped_other is 0.
C29_Witness ==
    /\ rPc = "returned"
    /\ Summary.skipped_no_gps = 2
    /\ Residual = 0 - 2
    /\ Summary.skipped_other = 0


\* C30: in single-word mode get_place_name never returns the literal
\* "Unknown": on every return path (cache hit, network success, lenient
\* fallback, village/suburb retry, partial response, coordinate fallback)
\* the text returned is another one, a normalized name or the coordinate
\* token.
C30_NeverUnknown ==
    (gCalls = 1 /\ gArgs.single_word_english /\ gOut.exc = "") =>
        /\ gOut.ret # Unknown
        /\ gOut.ret # None /\ gOut.ret # <<>>
        /\ \/ gOut.ret = ExpectedFallback
           \/ gArgs.has_cache /\ ~gOut.requested /\ gOut.ret = to_single_word_english(EntryBefore)
           \/ gOut.requested /\ gOut.ret = ReturnedForm(NameLookedUp)
           \/ gOut.requested /\ gOut.ret \in { ReturnedForm(f) : f \in RetryFields }

\* The cached entry has no single-word form ("A1" converts to "Unknown"):
\* it was evicted, and the name the lookup gave was returned as one word.
C30_Witness ==
    /\ gCalls = 1 /\ gArgs.single_word_english /\ gArgs.has_cache
    /\ EntryBefore = NameA1
    /\ to_single_word_english(EntryBefore) = Unknown
    /\ gOut.requested /\ gOut.ret = NameAb

\* Every attempt on the name the lookup gave ended in "Unknown", and the
\* coordinate token came back.
C30_WitnessFallback ==
    /\ gCalls = 1 /\ gArgs.single_word_english /\ gOut.requested
    /\ ~gArgs.has_cache
    /\ NameLookedUp = NameJiu
    /\ to_single_word_english(NameLookedUp) = Unknown
    /\ _name_to_safe_folder(NameLookedUp) = Unknown
    /\ gOut.ret = ExpectedFallback

====
